---------------------------- MODULE Spec2Model ----------------------------
(***************************************************************************)
(* Model of the entropy-coding core of prototype-jpeg                      *)
(* (src/prototype_jpeg/codec.py): the category table, the four baseline    *)
(* Huffman tables, zig-zag traversal, differential and run-length coding,  *)
(* the bit-level Huffman codec and the Encoder / Decoder objects.          *)
(*                                                                         *)
(* Bit strings ('0'/'1' character strings in the source) are sequences     *)
(* over {0, 1}.  Python tuples and lists are sequences; Python indices are *)
(* 0-based, so table[i][j] of the source is table[i][j + 1] here.          *)
(* An operation that can raise returns a record whose field "raised" is    *)
(* "none" or the name of the Python exception.                             *)
(***************************************************************************)
EXTENDS Integers, Sequences, FiniteSets, TLC

VARIABLES
    \* ---- bit-level Huffman codec (encode_huffman / decode_huffman) ----
    dc_ac,          \* DC or AC: which table pair the run uses
    layer_type,     \* LUMINANCE or CHROMINANCE
    values,         \* the symbols handed to encode_huffman so far
    bit_seq,        \* ''.join of the encode_huffman results
    current_idx,    \* decode_huffman's cursor
    yielded,        \* the values decode_huffman has yielded so far
    hpc,            \* "encode" | "encode_raised" | "decode" | "decode_raised" | "done"
    raised,         \* "none" or the exception that ended the run
    \* ---- run-length coder ----
    rl_seq,         \* the 63 AC values given to encode_run_length
    rl_encoded,     \* what encode_run_length returned
    rl_decoded,     \* what decode_run_length returned for it
    rpc,            \* "start" | "encoded" | "decoded"
    \* ---- zig-zag traversal ----
    zz_data,        \* the square matrix given to iter_zig_zag
    zz_x, zz_y,     \* the cursor x, y of the running traversal
    zz_seq,         \* the values iter_zig_zag has yielded
    zz_visited,     \* the cells <<y, x>> it read them from, in order
    zz_k,           \* how many values inverse_iter_zig_zag has placed
    zz_ret,         \* its array ret: the cells <<y, x>> written so far
    zpc,            \* "iter" | "inverse" | "done" | "raised"
    \* ---- Encoder and Decoder objects ----
    input,          \* the dict {y, cb, cr} the Encoder is built on
    enc_data,       \* Encoder.data
    enc_diff_dc,    \* Encoder._diff_dc
    enc_run_length_ac,  \* Encoder._run_length_ac
    encoded,        \* what Encoder.encode returned: Decoder.data
    dec_dc,         \* Decoder._dc
    dec_ac,         \* Decoder._ac
    decoded,        \* what Decoder.decode returned
    praised,        \* "none" or the exception the last call raised
    ppc,            \* "encoder" | "encode_raised" | "encoded" | "decoder"
                    \* | "decode_raised" | "decoded"
    \* ---- differential coder ----
    diff_seq,       \* the integers given to encode_differential
    diff_encoded,   \* what encode_differential returned
    diff_decoded,   \* what decode_differential returned for it
    dpc             \* "start" | "encoded" | "decoded"

hvars == <<dc_ac, layer_type, values, bit_seq, current_idx, yielded, hpc, raised>>
rvars == <<rl_seq, rl_encoded, rl_decoded, rpc>>
zvars == <<zz_data, zz_x, zz_y, zz_seq, zz_visited, zz_k, zz_ret, zpc>>
pvars == <<input, enc_data, enc_diff_dc, enc_run_length_ac, encoded, dec_dc,
           dec_ac, decoded, praised, ppc>>

dvars == <<diff_seq, diff_encoded, diff_decoded, dpc>>

vars == <<hvars, rvars, zvars, pvars, dvars>>

----------------------------------------------------------------------------
(* Module constants, codec.py lines 10-15.                                 *)

EOB == <<0, 0>>
ZRL == <<15, 0>>
DC == "DC"
AC == "AC"
LUMINANCE == "luminance"
CHROMINANCE == "chrominance"

----------------------------------------------------------------------------
(* Small helpers for Python's sequence operations.                         *)

\* s[a:b] of Python for 0 <= a, clipped at the end of s as Python clips it.
Slice(s, a, b) ==
    LET hi == IF b > Len(s) THEN Len(s) ELSE b
    IN  IF a >= hi THEN <<>> ELSE SubSeq(s, a + 1, hi)

\* (item, ) * n
Repeat(item, n) == [i \in 1..n |-> item]

RECURSIVE Flatten(_)
\* ''.join(parts) / the concatenation of a sequence of sequences, taken as
\* two halves so that the evaluation nests only log2(Len(parts)) deep
Flatten(parts) ==
    IF parts = <<>> THEN <<>>
    ELSE IF Len(parts) = 1 THEN parts[1]
    ELSE LET half == Len(parts) \div 2
         IN  Flatten(SubSeq(parts, 1, half))
             \o Flatten(SubSeq(parts, half + 1, Len(parts)))

\* t is a prefix of s (str.startswith)
IsPrefix(t, s) == Len(t) <= Len(s) /\ SubSeq(s, 1, Len(t)) = t

Abs(v) == IF v < 0 THEN -v ELSE v

Last(s) == s[Len(s)]

\* TRUE, once v has a value.  A loop of the source is unrolled here by
\* halves, the first half before the second; the test makes the first half
\* be worked out before the second half starts, as the source does, instead
\* of from inside it, so that the evaluation nests log2(n) deep and not n.
Evaluated(v) == v = v

\* the sequence f with every element worked out once
Tuple(f) == SubSeq(f, 1, Len(f))

----------------------------------------------------------------------------
(* HUFFMAN_CATEGORIES, codec.py lines 399-416.  Every row of the source is *)
(* a tuple unpacked from two ranges, range(-7, -4 + 1) and then            *)
(* range(4, 7 + 1); a row is kept here as that sequence of ranges, each    *)
(* <<start, stop>> as Python's range(start, stop), and not as the 2^s       *)
(* values it unpacks to.  Rows 0, 1 and 2 are literal in the source:        *)
(* (0, ), (-1, 1) and (-3, -2, 2, 3).                                       *)

HUFFMAN_CATEGORIES ==
    <<
      << <<0, 1>> >>,
      << <<-1, -1 + 1>>, <<1, 1 + 1>> >>,
      << <<-3, -2 + 1>>, <<2, 3 + 1>> >>,
      << <<-7, -4 + 1>>, <<4, 7 + 1>> >>,
      << <<-15, -8 + 1>>, <<8, 15 + 1>> >>,
      << <<-31, -16 + 1>>, <<16, 31 + 1>> >>,
      << <<-63, -32 + 1>>, <<32, 63 + 1>> >>,
      << <<-127, -64 + 1>>, <<64, 127 + 1>> >>,
      << <<-255, -128 + 1>>, <<128, 255 + 1>> >>,
      << <<-511, -256 + 1>>, <<256, 511 + 1>> >>,
      << <<-1023, -512 + 1>>, <<512, 1023 + 1>> >>,
      << <<-2047, -1024 + 1>>, <<1024, 2047 + 1>> >>,
      << <<-4095, -2048 + 1>>, <<2048, 4095 + 1>> >>,
      << <<-8191, -4096 + 1>>, <<4096, 8191 + 1>> >>,
      << <<-16383, -8192 + 1>>, <<8192, 16383 + 1>> >>,
      << <<-32767, -16384 + 1>>, <<16384, 32767 + 1>> >>
    >>

RangeLen(r) == IF r[2] > r[1] THEN r[2] - r[1] ELSE 0

RECURSIVE RowLen(_)
\* len(row)
RowLen(row) == IF row = <<>> THEN 0 ELSE RangeLen(Head(row)) + RowLen(Tail(row))

RECURSIVE RowIndex(_, _, _)
\* the 0-based position of the first element of the row equal to target,
\* counting from offset; -1 when the row does not hold it
RowIndex(row, target, offset) ==
    IF row = <<>> THEN -1
    ELSE LET r == Head(row)
         IN  IF r[1] <= target /\ target < r[2]
             THEN offset + (target - r[1])
             ELSE RowIndex(Tail(row), target, offset + RangeLen(r))

RECURSIVE RowAt(_, _)
\* row[idx] for 0 <= idx < len(row)
RowAt(row, idx) ==
    LET r == Head(row)
    IN  IF idx < RangeLen(r) THEN r[1] + idx
        ELSE RowAt(Tail(row), idx - RangeLen(r))

\* HUFFMAN_CATEGORIES[size][idx]
CategoryValue(size, idx) == RowAt(HUFFMAN_CATEGORIES[size + 1], idx)

----------------------------------------------------------------------------
(* HUFFMAN_CATEGORY_CODEWORD, codec.py lines 418-811, entry for entry.     *)

DC_LUMINANCE ==
    0 :> <<0,0>> @@ 1 :> <<0,1,0>> @@ 2 :> <<0,1,1>>
    @@ 3 :> <<1,0,0>> @@ 4 :> <<1,0,1>> @@ 5 :> <<1,1,0>>
    @@ 6 :> <<1,1,1,0>> @@ 7 :> <<1,1,1,1,0>> @@ 8 :> <<1,1,1,1,1,0>>
    @@ 9 :> <<1,1,1,1,1,1,0>> @@ 10 :> <<1,1,1,1,1,1,1,0>> @@ 11 :> <<1,1,1,1,1,1,1,1,0>>

DC_CHROMINANCE ==
    0 :> <<0,0>> @@ 1 :> <<0,1>> @@ 2 :> <<1,0>>
    @@ 3 :> <<1,1,0>> @@ 4 :> <<1,1,1,0>> @@ 5 :> <<1,1,1,1,0>>
    @@ 6 :> <<1,1,1,1,1,0>> @@ 7 :> <<1,1,1,1,1,1,0>> @@ 8 :> <<1,1,1,1,1,1,1,0>>
    @@ 9 :> <<1,1,1,1,1,1,1,1,0>> @@ 10 :> <<1,1,1,1,1,1,1,1,1,0>> @@ 11 :> <<1,1,1,1,1,1,1,1,1,1,0>>

AC_LUMINANCE ==
    <<0,0>> :> <<1,0,1,0>> @@ <<15,0>> :> <<1,1,1,1,1,1,1,1,0,0,1>> @@ <<0,1>> :> <<0,0>>
    @@ <<0,2>> :> <<0,1>> @@ <<0,3>> :> <<1,0,0>> @@ <<0,4>> :> <<1,0,1,1>>
    @@ <<0,5>> :> <<1,1,0,1,0>> @@ <<0,6>> :> <<1,1,1,1,0,0,0>> @@ <<0,7>> :> <<1,1,1,1,1,0,0,0>>
    @@ <<0,8>> :> <<1,1,1,1,1,1,0,1,1,0>> @@ <<0,9>> :> <<1,1,1,1,1,1,1,1,1,0,0,0,0,0,1,0>> @@ <<0,10>> :> <<1,1,1,1,1,1,1,1,1,0,0,0,0,0,1,1>>
    @@ <<1,1>> :> <<1,1,0,0>> @@ <<1,2>> :> <<1,1,0,1,1>> @@ <<1,3>> :> <<1,1,1,1,0,0,1>>
    @@ <<1,4>> :> <<1,1,1,1,1,0,1,1,0>> @@ <<1,5>> :> <<1,1,1,1,1,1,1,0,1,1,0>> @@ <<1,6>> :> <<1,1,1,1,1,1,1,1,1,0,0,0,0,1,0,0>>
    @@ <<1,7>> :> <<1,1,1,1,1,1,1,1,1,0,0,0,0,1,0,1>> @@ <<1,8>> :> <<1,1,1,1,1,1,1,1,1,0,0,0,0,1,1,0>> @@ <<1,9>> :> <<1,1,1,1,1,1,1,1,1,0,0,0,0,1,1,1>>
    @@ <<1,10>> :> <<1,1,1,1,1,1,1,1,1,0,0,0,1,0,0,0>> @@ <<2,1>> :> <<1,1,1,0,0>> @@ <<2,2>> :> <<1,1,1,1,1,0,0,1>>
    @@ <<2,3>> :> <<1,1,1,1,1,1,0,1,1,1>> @@ <<2,4>> :> <<1,1,1,1,1,1,1,1,0,1,0,0>> @@ <<2,5>> :> <<1,1,1,1,1,1,1,1,1,0,0,0,1,0,0,1>>
    @@ <<2,6>> :> <<1,1,1,1,1,1,1,1,1,0,0,0,1,0,1,0>> @@ <<2,7>> :> <<1,1,1,1,1,1,1,1,1,0,0,0,1,0,1,1>> @@ <<2,8>> :> <<1,1,1,1,1,1,1,1,1,0,0,0,1,1,0,0>>
    @@ <<2,9>> :> <<1,1,1,1,1,1,1,1,1,0,0,0,1,1,0,1>> @@ <<2,10>> :> <<1,1,1,1,1,1,1,1,1,0,0,0,1,1,1,0>> @@ <<3,1>> :> <<1,1,1,0,1,0>>
    @@ <<3,2>> :> <<1,1,1,1,1,0,1,1,1>> @@ <<3,3>> :> <<1,1,1,1,1,1,1,1,0,1,0,1>> @@ <<3,4>> :> <<1,1,1,1,1,1,1,1,1,0,0,0,1,1,1,1>>
    @@ <<3,5>> :> <<1,1,1,1,1,1,1,1,1,0,0,1,0,0,0,0>> @@ <<3,6>> :> <<1,1,1,1,1,1,1,1,1,0,0,1,0,0,0,1>> @@ <<3,7>> :> <<1,1,1,1,1,1,1,1,1,0,0,1,0,0,1,0>>
    @@ <<3,8>> :> <<1,1,1,1,1,1,1,1,1,0,0,1,0,0,1,1>> @@ <<3,9>> :> <<1,1,1,1,1,1,1,1,1,0,0,1,0,1,0,0>> @@ <<3,10>> :> <<1,1,1,1,1,1,1,1,1,0,0,1,0,1,0,1>>
    @@ <<4,1>> :> <<1,1,1,0,1,1>> @@ <<4,2>> :> <<1,1,1,1,1,1,1,0,0,0>> @@ <<4,3>> :> <<1,1,1,1,1,1,1,1,1,0,0,1,0,1,1,0>>
    @@ <<4,4>> :> <<1,1,1,1,1,1,1,1,1,0,0,1,0,1,1,1>> @@ <<4,5>> :> <<1,1,1,1,1,1,1,1,1,0,0,1,1,0,0,0>> @@ <<4,6>> :> <<1,1,1,1,1,1,1,1,1,0,0,1,1,0,0,1>>
    @@ <<4,7>> :> <<1,1,1,1,1,1,1,1,1,0,0,1,1,0,1,0>> @@ <<4,8>> :> <<1,1,1,1,1,1,1,1,1,0,0,1,1,0,1,1>> @@ <<4,9>> :> <<1,1,1,1,1,1,1,1,1,0,0,1,1,1,0,0>>
    @@ <<4,10>> :> <<1,1,1,1,1,1,1,1,1,0,0,1,1,1,0,1>> @@ <<5,1>> :> <<1,1,1,1,0,1,0>> @@ <<5,2>> :> <<1,1,1,1,1,1,1,0,1,1,1>>
    @@ <<5,3>> :> <<1,1,1,1,1,1,1,1,1,0,0,1,1,1,1,0>> @@ <<5,4>> :> <<1,1,1,1,1,1,1,1,1,0,0,1,1,1,1,1>> @@ <<5,5>> :> <<1,1,1,1,1,1,1,1,1,0,1,0,0,0,0,0>>
    @@ <<5,6>> :> <<1,1,1,1,1,1,1,1,1,0,1,0,0,0,0,1>> @@ <<5,7>> :> <<1,1,1,1,1,1,1,1,1,0,1,0,0,0,1,0>> @@ <<5,8>> :> <<1,1,1,1,1,1,1,1,1,0,1,0,0,0,1,1>>
    @@ <<5,9>> :> <<1,1,1,1,1,1,1,1,1,0,1,0,0,1,0,0>> @@ <<5,10>> :> <<1,1,1,1,1,1,1,1,1,0,1,0,0,1,0,1>> @@ <<6,1>> :> <<1,1,1,1,0,1,1>>
    @@ <<6,2>> :> <<1,1,1,1,1,1,1,1,0,1,1,0>> @@ <<6,3>> :> <<1,1,1,1,1,1,1,1,1,0,1,0,0,1,1,0>> @@ <<6,4>> :> <<1,1,1,1,1,1,1,1,1,0,1,0,0,1,1,1>>
    @@ <<6,5>> :> <<1,1,1,1,1,1,1,1,1,0,1,0,1,0,0,0>> @@ <<6,6>> :> <<1,1,1,1,1,1,1,1,1,0,1,0,1,0,0,1>> @@ <<6,7>> :> <<1,1,1,1,1,1,1,1,1,0,1,0,1,0,1,0>>
    @@ <<6,8>> :> <<1,1,1,1,1,1,1,1,1,0,1,0,1,0,1,1>> @@ <<6,9>> :> <<1,1,1,1,1,1,1,1,1,0,1,0,1,1,0,0>> @@ <<6,10>> :> <<1,1,1,1,1,1,1,1,1,0,1,0,1,1,0,1>>
    @@ <<7,1>> :> <<1,1,1,1,1,0,1,0>> @@ <<7,2>> :> <<1,1,1,1,1,1,1,1,0,1,1,1>> @@ <<7,3>> :> <<1,1,1,1,1,1,1,1,1,0,1,0,1,1,1,0>>
    @@ <<7,4>> :> <<1,1,1,1,1,1,1,1,1,0,1,0,1,1,1,1>> @@ <<7,5>> :> <<1,1,1,1,1,1,1,1,1,0,1,1,0,0,0,0>> @@ <<7,6>> :> <<1,1,1,1,1,1,1,1,1,0,1,1,0,0,0,1>>
    @@ <<7,7>> :> <<1,1,1,1,1,1,1,1,1,0,1,1,0,0,1,0>> @@ <<7,8>> :> <<1,1,1,1,1,1,1,1,1,0,1,1,0,0,1,1>> @@ <<7,9>> :> <<1,1,1,1,1,1,1,1,1,0,1,1,0,1,0,0>>
    @@ <<7,10>> :> <<1,1,1,1,1,1,1,1,1,0,1,1,0,1,0,1>> @@ <<8,1>> :> <<1,1,1,1,1,1,0,0,0>> @@ <<8,2>> :> <<1,1,1,1,1,1,1,1,1,0,0,0,0,0,0>>
    @@ <<8,3>> :> <<1,1,1,1,1,1,1,1,1,0,1,1,0,1,1,0>> @@ <<8,4>> :> <<1,1,1,1,1,1,1,1,1,0,1,1,0,1,1,1>> @@ <<8,5>> :> <<1,1,1,1,1,1,1,1,1,0,1,1,1,0,0,0>>
    @@ <<8,6>> :> <<1,1,1,1,1,1,1,1,1,0,1,1,1,0,0,1>> @@ <<8,7>> :> <<1,1,1,1,1,1,1,1,1,0,1,1,1,0,1,0>> @@ <<8,8>> :> <<1,1,1,1,1,1,1,1,1,0,1,1,1,0,1,1>>
    @@ <<8,9>> :> <<1,1,1,1,1,1,1,1,1,0,1,1,1,1,0,0>> @@ <<8,10>> :> <<1,1,1,1,1,1,1,1,1,0,1,1,1,1,0,1>> @@ <<9,1>> :> <<1,1,1,1,1,1,0,0,1>>
    @@ <<9,2>> :> <<1,1,1,1,1,1,1,1,1,0,1,1,1,1,1,0>> @@ <<9,3>> :> <<1,1,1,1,1,1,1,1,1,0,1,1,1,1,1,1>> @@ <<9,4>> :> <<1,1,1,1,1,1,1,1,1,1,0,0,0,0,0,0>>
    @@ <<9,5>> :> <<1,1,1,1,1,1,1,1,1,1,0,0,0,0,0,1>> @@ <<9,6>> :> <<1,1,1,1,1,1,1,1,1,1,0,0,0,0,1,0>> @@ <<9,7>> :> <<1,1,1,1,1,1,1,1,1,1,0,0,0,0,1,1>>
    @@ <<9,8>> :> <<1,1,1,1,1,1,1,1,1,1,0,0,0,1,0,0>> @@ <<9,9>> :> <<1,1,1,1,1,1,1,1,1,1,0,0,0,1,0,1>> @@ <<9,10>> :> <<1,1,1,1,1,1,1,1,1,1,0,0,0,1,1,0>>
    @@ <<10,1>> :> <<1,1,1,1,1,1,0,1,0>> @@ <<10,2>> :> <<1,1,1,1,1,1,1,1,1,1,0,0,0,1,1,1>> @@ <<10,3>> :> <<1,1,1,1,1,1,1,1,1,1,0,0,1,0,0,0>>
    @@ <<10,4>> :> <<1,1,1,1,1,1,1,1,1,1,0,0,1,0,0,1>> @@ <<10,5>> :> <<1,1,1,1,1,1,1,1,1,1,0,0,1,0,1,0>> @@ <<10,6>> :> <<1,1,1,1,1,1,1,1,1,1,0,0,1,0,1,1>>
    @@ <<10,7>> :> <<1,1,1,1,1,1,1,1,1,1,0,0,1,1,0,0>> @@ <<10,8>> :> <<1,1,1,1,1,1,1,1,1,1,0,0,1,1,0,1>> @@ <<10,9>> :> <<1,1,1,1,1,1,1,1,1,1,0,0,1,1,1,0>>
    @@ <<10,10>> :> <<1,1,1,1,1,1,1,1,1,1,0,0,1,1,1,1>> @@ <<11,1>> :> <<1,1,1,1,1,1,1,0,0,1>> @@ <<11,2>> :> <<1,1,1,1,1,1,1,1,1,1,0,1,0,0,0,0>>
    @@ <<11,3>> :> <<1,1,1,1,1,1,1,1,1,1,0,1,0,0,0,1>> @@ <<11,4>> :> <<1,1,1,1,1,1,1,1,1,1,0,1,0,0,1,0>> @@ <<11,5>> :> <<1,1,1,1,1,1,1,1,1,1,0,1,0,0,1,1>>
    @@ <<11,6>> :> <<1,1,1,1,1,1,1,1,1,1,0,1,0,1,0,0>> @@ <<11,7>> :> <<1,1,1,1,1,1,1,1,1,1,0,1,0,1,0,1>> @@ <<11,8>> :> <<1,1,1,1,1,1,1,1,1,1,0,1,0,1,1,0>>
    @@ <<11,9>> :> <<1,1,1,1,1,1,1,1,1,1,0,1,0,1,1,1>> @@ <<11,10>> :> <<1,1,1,1,1,1,1,1,1,1,0,1,1,0,0,0>> @@ <<12,1>> :> <<1,1,1,1,1,1,1,0,1,0>>
    @@ <<12,2>> :> <<1,1,1,1,1,1,1,1,1,1,0,1,1,0,0,1>> @@ <<12,3>> :> <<1,1,1,1,1,1,1,1,1,1,0,1,1,0,1,0>> @@ <<12,4>> :> <<1,1,1,1,1,1,1,1,1,1,0,1,1,0,1,1>>
    @@ <<12,5>> :> <<1,1,1,1,1,1,1,1,1,1,0,1,1,1,0,0>> @@ <<12,6>> :> <<1,1,1,1,1,1,1,1,1,1,0,1,1,1,0,1>> @@ <<12,7>> :> <<1,1,1,1,1,1,1,1,1,1,0,1,1,1,1,0>>
    @@ <<12,8>> :> <<1,1,1,1,1,1,1,1,1,1,0,1,1,1,1,1>> @@ <<12,9>> :> <<1,1,1,1,1,1,1,1,1,1,1,0,0,0,0,0>> @@ <<12,10>> :> <<1,1,1,1,1,1,1,1,1,1,1,0,0,0,0,1>>
    @@ <<13,1>> :> <<1,1,1,1,1,1,1,1,0,0,0>> @@ <<13,2>> :> <<1,1,1,1,1,1,1,1,1,1,1,0,0,0,1,0>> @@ <<13,3>> :> <<1,1,1,1,1,1,1,1,1,1,1,0,0,0,1,1>>
    @@ <<13,4>> :> <<1,1,1,1,1,1,1,1,1,1,1,0,0,1,0,0>> @@ <<13,5>> :> <<1,1,1,1,1,1,1,1,1,1,1,0,0,1,0,1>> @@ <<13,6>> :> <<1,1,1,1,1,1,1,1,1,1,1,0,0,1,1,0>>
    @@ <<13,7>> :> <<1,1,1,1,1,1,1,1,1,1,1,0,0,1,1,1>> @@ <<13,8>> :> <<1,1,1,1,1,1,1,1,1,1,1,0,1,0,0,0>> @@ <<13,9>> :> <<1,1,1,1,1,1,1,1,1,1,1,0,1,0,0,1>>
    @@ <<13,10>> :> <<1,1,1,1,1,1,1,1,1,1,1,0,1,0,1,0>> @@ <<14,1>> :> <<1,1,1,1,1,1,1,1,1,1,1,0,1,0,1,1>> @@ <<14,2>> :> <<1,1,1,1,1,1,1,1,1,1,1,0,1,1,0,0>>
    @@ <<14,3>> :> <<1,1,1,1,1,1,1,1,1,1,1,0,1,1,0,1>> @@ <<14,4>> :> <<1,1,1,1,1,1,1,1,1,1,1,0,1,1,1,0>> @@ <<14,5>> :> <<1,1,1,1,1,1,1,1,1,1,1,0,1,1,1,1>>
    @@ <<14,6>> :> <<1,1,1,1,1,1,1,1,1,1,1,1,0,0,0,0>> @@ <<14,7>> :> <<1,1,1,1,1,1,1,1,1,1,1,1,0,0,0,1>> @@ <<14,8>> :> <<1,1,1,1,1,1,1,1,1,1,1,1,0,0,1,0>>
    @@ <<14,9>> :> <<1,1,1,1,1,1,1,1,1,1,1,1,0,0,1,1>> @@ <<14,10>> :> <<1,1,1,1,1,1,1,1,1,1,1,1,0,1,0,0>> @@ <<15,1>> :> <<1,1,1,1,1,1,1,1,1,1,1,1,0,1,0,1>>
    @@ <<15,2>> :> <<1,1,1,1,1,1,1,1,1,1,1,1,0,1,1,0>> @@ <<15,3>> :> <<1,1,1,1,1,1,1,1,1,1,1,1,0,1,1,1>> @@ <<15,4>> :> <<1,1,1,1,1,1,1,1,1,1,1,1,1,0,0,0>>
    @@ <<15,5>> :> <<1,1,1,1,1,1,1,1,1,1,1,1,1,0,0,1>> @@ <<15,6>> :> <<1,1,1,1,1,1,1,1,1,1,1,1,1,0,1,0>> @@ <<15,7>> :> <<1,1,1,1,1,1,1,1,1,1,1,1,1,0,1,1>>
    @@ <<15,8>> :> <<1,1,1,1,1,1,1,1,1,1,1,1,1,1,0,0>> @@ <<15,9>> :> <<1,1,1,1,1,1,1,1,1,1,1,1,1,1,0,1>> @@ <<15,10>> :> <<1,1,1,1,1,1,1,1,1,1,1,1,1,1,1,0>>

AC_CHROMINANCE ==
    <<0,0>> :> <<0,0>> @@ <<15,0>> :> <<1,1,1,1,1,1,1,0,1,0>> @@ <<0,1>> :> <<0,1>>
    @@ <<0,2>> :> <<1,0,0>> @@ <<0,3>> :> <<1,0,1,0>> @@ <<0,4>> :> <<1,1,0,0,0>>
    @@ <<0,5>> :> <<1,1,0,0,1>> @@ <<0,6>> :> <<1,1,1,0,0,0>> @@ <<0,7>> :> <<1,1,1,1,0,0,0>>
    @@ <<0,8>> :> <<1,1,1,1,1,0,1,0,0>> @@ <<0,9>> :> <<1,1,1,1,1,1,0,1,1,0>> @@ <<0,10>> :> <<1,1,1,1,1,1,1,1,0,1,0,0>>
    @@ <<1,1>> :> <<1,0,1,1>> @@ <<1,2>> :> <<1,1,1,0,0,1>> @@ <<1,3>> :> <<1,1,1,1,0,1,1,0>>
    @@ <<1,4>> :> <<1,1,1,1,1,0,1,0,1>> @@ <<1,5>> :> <<1,1,1,1,1,1,1,0,1,1,0>> @@ <<1,6>> :> <<1,1,1,1,1,1,1,1,0,1,0,1>>
    @@ <<1,7>> :> <<1,1,1,1,1,1,1,1,1,0,0,0,1,0,0,0>> @@ <<1,8>> :> <<1,1,1,1,1,1,1,1,1,0,0,0,1,0,0,1>> @@ <<1,9>> :> <<1,1,1,1,1,1,1,1,1,0,0,0,1,0,1,0>>
    @@ <<1,10>> :> <<1,1,1,1,1,1,1,1,1,0,0,0,1,0,1,1>> @@ <<2,1>> :> <<1,1,0,1,0>> @@ <<2,2>> :> <<1,1,1,1,0,1,1,1>>
    @@ <<2,3>> :> <<1,1,1,1,1,1,0,1,1,1>> @@ <<2,4>> :> <<1,1,1,1,1,1,1,1,0,1,1,0>> @@ <<2,5>> :> <<1,1,1,1,1,1,1,1,1,0,0,0,0,1,0>>
    @@ <<2,6>> :> <<1,1,1,1,1,1,1,1,1,0,0,0,1,1,0,0>> @@ <<2,7>> :> <<1,1,1,1,1,1,1,1,1,0,0,0,1,1,0,1>> @@ <<2,8>> :> <<1,1,1,1,1,1,1,1,1,0,0,0,1,1,1,0>>
    @@ <<2,9>> :> <<1,1,1,1,1,1,1,1,1,0,0,0,1,1,1,1>> @@ <<2,10>> :> <<1,1,1,1,1,1,1,1,1,0,0,1,0,0,0,0>> @@ <<3,1>> :> <<1,1,0,1,1>>
    @@ <<3,2>> :> <<1,1,1,1,1,0,0,0>> @@ <<3,3>> :> <<1,1,1,1,1,1,1,0,0,0>> @@ <<3,4>> :> <<1,1,1,1,1,1,1,1,0,1,1,1>>
    @@ <<3,5>> :> <<1,1,1,1,1,1,1,1,1,0,0,1,0,0,0,1>> @@ <<3,6>> :> <<1,1,1,1,1,1,1,1,1,0,0,1,0,0,1,0>> @@ <<3,7>> :> <<1,1,1,1,1,1,1,1,1,0,0,1,0,0,1,1>>
    @@ <<3,8>> :> <<1,1,1,1,1,1,1,1,1,0,0,1,0,1,0,0>> @@ <<3,9>> :> <<1,1,1,1,1,1,1,1,1,0,0,1,0,1,0,1>> @@ <<3,10>> :> <<1,1,1,1,1,1,1,1,1,0,0,1,0,1,1,0>>
    @@ <<4,1>> :> <<1,1,1,0,1,0>> @@ <<4,2>> :> <<1,1,1,1,1,0,1,1,0>> @@ <<4,3>> :> <<1,1,1,1,1,1,1,1,1,0,0,1,0,1,1,1>>
    @@ <<4,4>> :> <<1,1,1,1,1,1,1,1,1,0,0,1,1,0,0,0>> @@ <<4,5>> :> <<1,1,1,1,1,1,1,1,1,0,0,1,1,0,0,1>> @@ <<4,6>> :> <<1,1,1,1,1,1,1,1,1,0,0,1,1,0,1,0>>
    @@ <<4,7>> :> <<1,1,1,1,1,1,1,1,1,0,0,1,1,0,1,1>> @@ <<4,8>> :> <<1,1,1,1,1,1,1,1,1,0,0,1,1,1,0,0>> @@ <<4,9>> :> <<1,1,1,1,1,1,1,1,1,0,0,1,1,1,0,1>>
    @@ <<4,10>> :> <<1,1,1,1,1,1,1,1,1,0,0,1,1,1,1,0>> @@ <<5,1>> :> <<1,1,1,0,1,1>> @@ <<5,2>> :> <<1,1,1,1,1,1,1,0,0,1>>
    @@ <<5,3>> :> <<1,1,1,1,1,1,1,1,1,0,0,1,1,1,1,1>> @@ <<5,4>> :> <<1,1,1,1,1,1,1,1,1,0,1,0,0,0,0,0>> @@ <<5,5>> :> <<1,1,1,1,1,1,1,1,1,0,1,0,0,0,0,1>>
    @@ <<5,6>> :> <<1,1,1,1,1,1,1,1,1,0,1,0,0,0,1,0>> @@ <<5,7>> :> <<1,1,1,1,1,1,1,1,1,0,1,0,0,0,1,1>> @@ <<5,8>> :> <<1,1,1,1,1,1,1,1,1,0,1,0,0,1,0,0>>
    @@ <<5,9>> :> <<1,1,1,1,1,1,1,1,1,0,1,0,0,1,0,1>> @@ <<5,10>> :> <<1,1,1,1,1,1,1,1,1,0,1,0,0,1,1,0>> @@ <<6,1>> :> <<1,1,1,1,0,0,1>>
    @@ <<6,2>> :> <<1,1,1,1,1,1,1,0,1,1,1>> @@ <<6,3>> :> <<1,1,1,1,1,1,1,1,1,0,1,0,0,1,1,1>> @@ <<6,4>> :> <<1,1,1,1,1,1,1,1,1,0,1,0,1,0,0,0>>
    @@ <<6,5>> :> <<1,1,1,1,1,1,1,1,1,0,1,0,1,0,0,1>> @@ <<6,6>> :> <<1,1,1,1,1,1,1,1,1,0,1,0,1,0,1,0>> @@ <<6,7>> :> <<1,1,1,1,1,1,1,1,1,0,1,0,1,0,1,1>>
    @@ <<6,8>> :> <<1,1,1,1,1,1,1,1,1,0,1,0,1,1,0,0>> @@ <<6,9>> :> <<1,1,1,1,1,1,1,1,1,0,1,0,1,1,0,1>> @@ <<6,10>> :> <<1,1,1,1,1,1,1,1,1,0,1,0,1,1,1,0>>
    @@ <<7,1>> :> <<1,1,1,1,0,1,0>> @@ <<7,2>> :> <<1,1,1,1,1,1,1,1,0,0,0,0>> @@ <<7,3>> :> <<1,1,1,1,1,1,1,1,1,0,1,0,1,1,1,1>>
    @@ <<7,4>> :> <<1,1,1,1,1,1,1,1,1,0,1,1,0,0,0,0>> @@ <<7,5>> :> <<1,1,1,1,1,1,1,1,1,0,1,1,0,0,0,1>> @@ <<7,6>> :> <<1,1,1,1,1,1,1,1,1,0,1,1,0,0,1,0>>
    @@ <<7,7>> :> <<1,1,1,1,1,1,1,1,1,0,1,1,0,0,1,1>> @@ <<7,8>> :> <<1,1,1,1,1,1,1,1,1,0,1,1,0,1,0,0>> @@ <<7,9>> :> <<1,1,1,1,1,1,1,1,1,0,1,1,0,1,0,1>>
    @@ <<7,10>> :> <<1,1,1,1,1,1,1,1,1,0,1,1,0,1,1,0>> @@ <<8,1>> :> <<1,1,1,1,1,0,0,1>> @@ <<8,2>> :> <<1,1,1,1,1,1,1,1,1,0,1,1,0,1,1,1>>
    @@ <<8,3>> :> <<1,1,1,1,1,1,1,1,1,0,1,1,1,0,0,0>> @@ <<8,4>> :> <<1,1,1,1,1,1,1,1,1,0,1,1,1,0,0,1>> @@ <<8,5>> :> <<1,1,1,1,1,1,1,1,1,0,1,1,1,0,1,0>>
    @@ <<8,6>> :> <<1,1,1,1,1,1,1,1,1,0,1,1,1,0,1,1>> @@ <<8,7>> :> <<1,1,1,1,1,1,1,1,1,0,1,1,1,1,0,0>> @@ <<8,8>> :> <<1,1,1,1,1,1,1,1,1,0,1,1,1,1,0,1>>
    @@ <<8,9>> :> <<1,1,1,1,1,1,1,1,1,0,1,1,1,1,1,0>> @@ <<8,10>> :> <<1,1,1,1,1,1,1,1,1,0,1,1,1,1,1,1>> @@ <<9,1>> :> <<1,1,1,1,1,0,1,1,1>>
    @@ <<9,2>> :> <<1,1,1,1,1,1,1,1,1,1,0,0,0,0,0,0>> @@ <<9,3>> :> <<1,1,1,1,1,1,1,1,1,1,0,0,0,0,0,1>> @@ <<9,4>> :> <<1,1,1,1,1,1,1,1,1,1,0,0,0,0,1,0>>
    @@ <<9,5>> :> <<1,1,1,1,1,1,1,1,1,1,0,0,0,0,1,1>> @@ <<9,6>> :> <<1,1,1,1,1,1,1,1,1,1,0,0,0,1,0,0>> @@ <<9,7>> :> <<1,1,1,1,1,1,1,1,1,1,0,0,0,1,0,1>>
    @@ <<9,8>> :> <<1,1,1,1,1,1,1,1,1,1,0,0,0,1,1,0>> @@ <<9,9>> :> <<1,1,1,1,1,1,1,1,1,1,0,0,0,1,1,1>> @@ <<9,10>> :> <<1,1,1,1,1,1,1,1,1,1,0,0,1,0,0,0>>
    @@ <<10,1>> :> <<1,1,1,1,1,1,0,0,0>> @@ <<10,2>> :> <<1,1,1,1,1,1,1,1,1,1,0,0,1,0,0,1>> @@ <<10,3>> :> <<1,1,1,1,1,1,1,1,1,1,0,0,1,0,1,0>>
    @@ <<10,4>> :> <<1,1,1,1,1,1,1,1,1,1,0,0,1,0,1,1>> @@ <<10,5>> :> <<1,1,1,1,1,1,1,1,1,1,0,0,1,1,0,0>> @@ <<10,6>> :> <<1,1,1,1,1,1,1,1,1,1,0,0,1,1,0,1>>
    @@ <<10,7>> :> <<1,1,1,1,1,1,1,1,1,1,0,0,1,1,1,0>> @@ <<10,8>> :> <<1,1,1,1,1,1,1,1,1,1,0,0,1,1,1,1>> @@ <<10,9>> :> <<1,1,1,1,1,1,1,1,1,1,0,1,0,0,0,0>>
    @@ <<10,10>> :> <<1,1,1,1,1,1,1,1,1,1,0,1,0,0,0,1>> @@ <<11,1>> :> <<1,1,1,1,1,1,0,0,1>> @@ <<11,2>> :> <<1,1,1,1,1,1,1,1,1,1,0,1,0,0,1,0>>
    @@ <<11,3>> :> <<1,1,1,1,1,1,1,1,1,1,0,1,0,0,1,1>> @@ <<11,4>> :> <<1,1,1,1,1,1,1,1,1,1,0,1,0,1,0,0>> @@ <<11,5>> :> <<1,1,1,1,1,1,1,1,1,1,0,1,0,1,0,1>>
    @@ <<11,6>> :> <<1,1,1,1,1,1,1,1,1,1,0,1,0,1,1,0>> @@ <<11,7>> :> <<1,1,1,1,1,1,1,1,1,1,0,1,0,1,1,1>> @@ <<11,8>> :> <<1,1,1,1,1,1,1,1,1,1,0,1,1,0,0,0>>
    @@ <<11,9>> :> <<1,1,1,1,1,1,1,1,1,1,0,1,1,0,0,1>> @@ <<11,10>> :> <<1,1,1,1,1,1,1,1,1,1,0,1,1,0,1,0>> @@ <<12,1>> :> <<1,1,1,1,1,1,0,1,0>>
    @@ <<12,2>> :> <<1,1,1,1,1,1,1,1,1,1,0,1,1,0,1,1>> @@ <<12,3>> :> <<1,1,1,1,1,1,1,1,1,1,0,1,1,1,0,0>> @@ <<12,4>> :> <<1,1,1,1,1,1,1,1,1,1,0,1,1,1,0,1>>
    @@ <<12,5>> :> <<1,1,1,1,1,1,1,1,1,1,0,1,1,1,1,0>> @@ <<12,6>> :> <<1,1,1,1,1,1,1,1,1,1,0,1,1,1,1,1>> @@ <<12,7>> :> <<1,1,1,1,1,1,1,1,1,1,1,0,0,0,0,0>>
    @@ <<12,8>> :> <<1,1,1,1,1,1,1,1,1,1,1,0,0,0,0,1>> @@ <<12,9>> :> <<1,1,1,1,1,1,1,1,1,1,1,0,0,0,1,0>> @@ <<12,10>> :> <<1,1,1,1,1,1,1,1,1,1,1,0,0,0,1,1>>
    @@ <<13,1>> :> <<1,1,1,1,1,1,1,1,0,0,1>> @@ <<13,2>> :> <<1,1,1,1,1,1,1,1,1,1,1,0,0,1,0,0>> @@ <<13,3>> :> <<1,1,1,1,1,1,1,1,1,1,1,0,0,1,0,1>>
    @@ <<13,4>> :> <<1,1,1,1,1,1,1,1,1,1,1,0,0,1,1,0>> @@ <<13,5>> :> <<1,1,1,1,1,1,1,1,1,1,1,0,0,1,1,1>> @@ <<13,6>> :> <<1,1,1,1,1,1,1,1,1,1,1,0,1,0,0,0>>
    @@ <<13,7>> :> <<1,1,1,1,1,1,1,1,1,1,1,0,1,0,0,1>> @@ <<13,8>> :> <<1,1,1,1,1,1,1,1,1,1,1,0,1,0,1,0>> @@ <<13,9>> :> <<1,1,1,1,1,1,1,1,1,1,1,0,1,0,1,1>>
    @@ <<13,10>> :> <<1,1,1,1,1,1,1,1,1,1,1,0,1,1,0,0>> @@ <<14,1>> :> <<1,1,1,1,1,1,1,1,1,0,0,0,0,0>> @@ <<14,2>> :> <<1,1,1,1,1,1,1,1,1,1,1,0,1,1,0,1>>
    @@ <<14,3>> :> <<1,1,1,1,1,1,1,1,1,1,1,0,1,1,1,0>> @@ <<14,4>> :> <<1,1,1,1,1,1,1,1,1,1,1,0,1,1,1,1>> @@ <<14,5>> :> <<1,1,1,1,1,1,1,1,1,1,1,1,0,0,0,0>>
    @@ <<14,6>> :> <<1,1,1,1,1,1,1,1,1,1,1,1,0,0,0,1>> @@ <<14,7>> :> <<1,1,1,1,1,1,1,1,1,1,1,1,0,0,1,0>> @@ <<14,8>> :> <<1,1,1,1,1,1,1,1,1,1,1,1,0,0,1,1>>
    @@ <<14,9>> :> <<1,1,1,1,1,1,1,1,1,1,1,1,0,1,0,0>> @@ <<14,10>> :> <<1,1,1,1,1,1,1,1,1,1,1,1,0,1,0,1>> @@ <<15,1>> :> <<1,1,1,1,1,1,1,1,1,0,0,0,0,1,1>>
    @@ <<15,2>> :> <<1,1,1,1,1,1,1,1,1,1,1,1,0,1,1,0>> @@ <<15,3>> :> <<1,1,1,1,1,1,1,1,1,1,1,1,0,1,1,1>> @@ <<15,4>> :> <<1,1,1,1,1,1,1,1,1,1,1,1,1,0,0,0>>
    @@ <<15,5>> :> <<1,1,1,1,1,1,1,1,1,1,1,1,1,0,0,1>> @@ <<15,6>> :> <<1,1,1,1,1,1,1,1,1,1,1,1,1,0,1,0>> @@ <<15,7>> :> <<1,1,1,1,1,1,1,1,1,1,1,1,1,0,1,1>>
    @@ <<15,8>> :> <<1,1,1,1,1,1,1,1,1,1,1,1,1,1,0,0>> @@ <<15,9>> :> <<1,1,1,1,1,1,1,1,1,1,1,1,1,1,0,1>> @@ <<15,10>> :> <<1,1,1,1,1,1,1,1,1,1,1,1,1,1,1,0>>
\* the tables with the DC luminance entry of size 11 left out
HUFFMAN_CATEGORY_CODEWORD_MissingKey ==
    [DC |-> [luminance |-> [k \in 0..10 |-> DC_LUMINANCE[k]],
             chrominance |-> DC_CHROMINANCE],
     AC |-> [luminance |-> AC_LUMINANCE, chrominance |-> AC_CHROMINANCE]]

\* the tables with the last bit of the AC luminance codeword of (0, 3) lost:
\* 10 is then a prefix of EOB, 1010
HUFFMAN_CATEGORY_CODEWORD_ShortCodeword ==
    [DC |-> [luminance |-> DC_LUMINANCE, chrominance |-> DC_CHROMINANCE],
     AC |-> [luminance |-> [AC_LUMINANCE EXCEPT ![<<0, 3>>] = <<1, 0>>],
             chrominance |-> AC_CHROMINANCE]]

HUFFMAN_CATEGORY_CODEWORD ==
    [DC |-> [luminance |-> DC_LUMINANCE, chrominance |-> DC_CHROMINANCE],
     AC |-> [luminance |-> AC_LUMINANCE, chrominance |-> AC_CHROMINANCE]]

\* bidict's .inv of one table: codeword -> key.  bidict refuses duplicate
\* values at construction, so .inv is a function exactly when the forward
\* table is injective; CHOOSE picks the key the codeword belongs to.
Inverse(table) ==
    [cw \in {table[k] : k \in DOMAIN table} |->
        CHOOSE k \in DOMAIN table : table[k] = cw]

HUFFMAN_CATEGORY_CODEWORD_INV ==
    [DC |-> [luminance |-> Inverse(DC_LUMINANCE),
             chrominance |-> Inverse(DC_CHROMINANCE)],
     AC |-> [luminance |-> Inverse(AC_LUMINANCE),
             chrominance |-> Inverse(AC_CHROMINANCE)]]

----------------------------------------------------------------------------
(* encode_huffman, codec.py lines 193-241.                                 *)

RECURSIVE index_2d_from(_, _, _)
index_2d_from(table, target, i) ==
    IF i > Len(table) THEN <<-1, -1>>
    ELSE LET j == RowIndex(table[i], target, 0)
         IN  IF j >= 0 THEN <<i - 1, j>>
             ELSE index_2d_from(table, target, i + 1)

\* index_2d counting the column from 1
index_2d_OneBased(table, target) ==
    LET found == index_2d_from(table, target, 1)
    IN  IF found[1] = -1 THEN found ELSE <<found[1], found[2] + 1>>

\* index_2d (lines 208-213): the first (i, j), rows in order and elements in
\* order, with table[i][j] = target; <<-1, -1>> stands for the ValueError
\* raised when the target is nowhere in the table.
index_2d(table, target) == index_2d_from(table, target, 1)

RECURSIVE Binary(_)
\* '{:b}'.format(n) for n >= 0: the binary digits of n, no leading zero
Binary(n) == IF n < 2 THEN <<n>> ELSE Binary(n \div 2) \o <<n % 2>>

\* '{:b}'.format(n): the padding forgotten
FormatBinary_NoPadding(n, padding) == Binary(n)

\* '{:0{padding}b}'.format(n, padding=padding): zero-filled on the left up to
\* the MINIMUM width padding; a longer number is not cut.
FormatBinary(n, padding) ==
    LET digits == Binary(n)
    IN  IF Len(digits) >= padding THEN digits
        ELSE Repeat(0, padding - Len(digits)) \o digits

\* HUFFMAN_CATEGORY_CODEWORD[dc_ac][layer_type][key]; a missing key is
\* Python's KeyError.
Codeword(kind, layer, key) ==
    LET table == HUFFMAN_CATEGORY_CODEWORD[kind][layer]
    IN  IF key \in DOMAIN table
        THEN [raised |-> "none", bits |-> table[key]]
        ELSE [raised |-> "KeyError", bits |-> <<>>]

\* the branch of lines 215-226: value is not an Iterable, a differential DC
encode_huffman_dc(value, layer) ==
    IF value <= -2048 \/ value >= 2048
    THEN [raised |-> "ValueError", bits |-> <<>>]
    ELSE LET found == index_2d(HUFFMAN_CATEGORIES, value)
             size == found[1]
             fixed_code_idx == found[2]
             cw == Codeword(DC, layer, size)
         IN  IF size = -1 THEN [raised |-> "ValueError", bits |-> <<>>]
             ELSE IF cw.raised # "none" THEN cw
             ELSE IF size = 0 THEN cw
             ELSE [raised |-> "none",
                   bits |-> cw.bits \o FormatBinary(fixed_code_idx, size)]

\* the branch of lines 227-241: value is a (run, nonzero) pair
encode_huffman_ac(value, layer) ==
    IF value = EOB \/ value = ZRL
    THEN Codeword(AC, layer, value)
    ELSE LET run == value[1]
             nonzero == value[2]
         IN  IF nonzero = 0 \/ nonzero <= -1024 \/ nonzero >= 1024
             THEN [raised |-> "ValueError", bits |-> <<>>]
             ELSE LET found == index_2d(HUFFMAN_CATEGORIES, nonzero)
                      size == found[1]
                      fixed_code_idx == found[2]
                      cw == Codeword(AC, layer, <<run, size>>)
                  IN  IF size = -1
                      THEN [raised |-> "ValueError", bits |-> <<>>]
                      ELSE IF cw.raised # "none" THEN cw
                      ELSE [raised |-> "none",
                            bits |-> cw.bits
                                     \o FormatBinary(fixed_code_idx, size)]

\* encode_huffman(value, layer_type).  The source tells a DC difference from
\* an AC pair by isinstance(value, Iterable); here the caller says which of
\* the two it passes (kind = DC for an int, AC for a pair).
encode_huffman(value, kind, layer) ==
    IF kind = DC THEN encode_huffman_dc(value, layer)
    ELSE encode_huffman_ac(value, layer)

----------------------------------------------------------------------------
(* decode_huffman, codec.py lines 244-317.                                 *)

RECURSIVE ParseBinaryTo(_, _)
\* the number the first n bits of fixed spell
ParseBinaryTo(fixed, n) ==
    IF n = 0 THEN 0 ELSE 2 * ParseBinaryTo(fixed, n - 1) + fixed[n]

\* int(fixed, 2) for a non-empty bit string
ParseBinary(fixed) == ParseBinaryTo(fixed, Len(fixed))

\* diff_value without the check of line 264
diff_value_Unchecked(bits, idx, size) ==
    [raised |-> "none", value |-> ParseBinary(Slice(bits, idx, idx + size))]

\* diff_value raising already when the amplitude ends the bit string
diff_value_EndIsShort(bits, idx, size) ==
    LET bit_len == Len(bits)
    IN  IF idx >= bit_len \/ idx + size >= bit_len
        THEN [raised |-> "IndexError", value |-> 0]
        ELSE [raised |-> "none",
              value |-> ParseBinary(Slice(bits, idx, idx + size))]

\* diff_value (lines 263-268)
diff_value(bits, idx, size) ==
    LET bit_len == Len(bits)
    IN  IF idx >= bit_len \/ idx + size > bit_len
        THEN [raised |-> "IndexError", value |-> 0]
        ELSE [raised |-> "none",
              value |-> ParseBinary(Slice(bits, idx, idx + size))]

MaxCodewordLength == 16

RECURSIVE ShrinkingMatch(_, _, _, _, _)
\* the inner while loop (lines 286-313): current_slice starts as the n bits at
\* the cursor and loses its last bit until it is a codeword of the table;
\* the result is the length of the slice that matched, 0 when the slice
\* ran empty (the loop's else branch).
ShrinkingMatch(bits, idx, n, kind, layer) ==
    IF n = 0 THEN 0
    ELSE IF Slice(bits, idx, idx + n)
              \in DOMAIN HUFFMAN_CATEGORY_CODEWORD_INV[kind][layer]
         THEN n
         ELSE ShrinkingMatch(bits, idx, n - 1, kind, layer)

\* lines 288-315 of an iteration whose inner loop matched the n bits at the
\* cursor (n = 0: the slice ran empty)
decode_matched(bits, idx, kind, layer, n) ==
    IF n = 0
    THEN [raised |-> "KeyError", yields |-> FALSE, value |-> 0, idx |-> idx]
    ELSE
      LET current_slice == Slice(bits, idx, idx + n)
          key == HUFFMAN_CATEGORY_CODEWORD_INV[kind][layer][current_slice]
      IN  IF kind = DC
          THEN LET size == key
               IN  IF size = 0
                   THEN [raised |-> "none", yields |-> TRUE, value |-> 0,
                         idx |-> idx + n + size]
                   ELSE LET d == diff_value(bits, idx + n, size)
                        IN  IF d.raised # "none"
                            THEN [raised |-> d.raised, yields |-> FALSE,
                                  value |-> 0, idx |-> idx]
                            ELSE [raised |-> "none", yields |-> TRUE,
                                  value |-> CategoryValue(size, d.value),
                                  idx |-> idx + n + size]
          ELSE LET run == key[1]
                   size == key[2]
               IN  IF key = EOB \/ key = ZRL
                   THEN [raised |-> "none", yields |-> TRUE, value |-> key,
                         idx |-> idx + n + size]
                   ELSE LET d == diff_value(bits, idx + n, size)
                        IN  IF d.raised # "none"
                            THEN [raised |-> d.raised, yields |-> FALSE,
                                  value |-> <<0, 0>>, idx |-> idx]
                            ELSE [raised |-> "none", yields |-> TRUE,
                                  value |->
                                    <<run, CategoryValue(size, d.value)>>,
                                  idx |-> idx + n + size]

\* One iteration of the outer while loop (lines 272-317), entered with
\* current_idx < bit_len.  The result says what the iteration raised, whether
\* it yielded (an exception of diff_value is raised before the yield), the
\* value yielded and the cursor after it.
decode_iteration(bits, idx, kind, layer) ==
    LET bit_len == Len(bits)
        remaining_len == bit_len - idx
        window == IF remaining_len > MaxCodewordLength
                  THEN MaxCodewordLength ELSE remaining_len
    IN  CHOOSE it \in {decode_matched(bits, idx, kind, layer, n) :
                         n \in {ShrinkingMatch(bits, idx, window, kind,
                                               layer)}} : TRUE

\* the generator after a pass that gave `it`
AfterIteration(g, it) ==
    IF it.raised # "none"
    THEN [idx |-> g.idx, values |-> g.values, raised |-> it.raised]
    ELSE [idx |-> it.idx, values |-> Append(g.values, it.value),
          raised |-> "none"]

\* What the generator has done from the state g = [idx, values, raised] after
\* at most one more pass through `while current_idx < bit_len`: a generator
\* that has raised or is exhausted stays as it is.
decode_huffman_step(bits, kind, layer, g) ==
    IF g.raised # "none" \/ g.idx >= Len(bits) THEN g
    ELSE AfterIteration(g, decode_iteration(bits, g.idx, kind, layer))

RECURSIVE decode_huffman_steps(_, _, _, _, _)
RECURSIVE decode_huffman_rest(_, _, _, _, _)
\* n passes from g, taken as two halves so that the evaluation nests only
\* log2(n) deep
decode_huffman_steps(bits, kind, layer, g, n) ==
    IF n = 0 THEN g
    ELSE IF n = 1 THEN decode_huffman_step(bits, kind, layer, g)
    ELSE decode_huffman_rest(bits, kind, layer,
             decode_huffman_steps(bits, kind, layer, g, n \div 2),
             n - (n \div 2))

\* the second half of the passes, from where the first half has got to
decode_huffman_rest(bits, kind, layer, half, n) ==
    IF half.raised # "none" \/ half.idx >= Len(bits) THEN half
    ELSE decode_huffman_steps(bits, kind, layer, half, n)

\* what the caller sees of the generator g
Consumed(g) == [raised |-> g.raised, values |-> g.values]

\* decode_huffman(bit_seq, dc_ac, layer_type), consumed to the end as
\* Decoder._get_dc and Decoder._get_ac consume it: everything it yields and
\* what ended it.  A pass that does not raise moves the cursor forward by at
\* least the bit of a codeword, so Len(bits) passes exhaust the generator.
decode_huffman(bits, kind, layer) ==
    Consumed(decode_huffman_steps(bits, kind, layer,
                [idx |-> 0, values |-> <<>>, raised |-> "none"], Len(bits)))

----------------------------------------------------------------------------
(* encode_differential / decode_differential, codec.py lines 320-328.      *)

\* item - seq[idx - 1] for every idx: seq[-1] is the last item
encode_differential_Wraps(seq) ==
    [idx \in 1..Len(seq) |->
        seq[idx] - seq[IF idx # 1 THEN idx - 1 ELSE Len(seq)]]

encode_differential(seq) ==
    [idx \in 1..Len(seq) |->
        IF idx # 1 THEN seq[idx] - seq[idx - 1] ELSE seq[idx]]

RECURSIVE Sum(_, _, _)
\* seq[lo] + ... + seq[hi], by halves
Sum(seq, lo, hi) ==
    IF lo > hi THEN 0
    ELSE IF lo = hi THEN seq[lo]
    ELSE LET mid == (lo + hi) \div 2
         IN  Sum(seq, lo, mid) + Sum(seq, mid + 1, hi)

\* tuple(itertools.accumulate(seq)): the running sums
decode_differential(seq) == [idx \in 1..Len(seq) |-> Sum(seq, 1, idx)]

----------------------------------------------------------------------------
(* encode_run_length / decode_run_length, codec.py lines 331-358.          *)

\* one pass of groupby's scan at element i: the element lengthens the open
\* run or opens a new one; acc holds the runs as <<length, key>>
GroupByStep(seq, acc, i) ==
    IF acc # <<>> /\ Last(acc)[2] = seq[i]
    THEN [acc EXCEPT ![Len(acc)] = <<@[1] + 1, @[2]>>]
    ELSE Append(acc, <<1, seq[i]>>)

RECURSIVE GroupByLoop(_, _, _, _)
\* the scan over the elements lo..hi, by halves
GroupByLoop(seq, acc, lo, hi) ==
    IF lo > hi THEN acc
    ELSE IF lo = hi THEN GroupByStep(seq, acc, lo)
    ELSE LET mid == (lo + hi) \div 2
             left == GroupByLoop(seq, acc, lo, mid)
         IN  IF Evaluated(left) THEN GroupByLoop(seq, left, mid + 1, hi)
             ELSE left

\* [(len(tuple(group)), key) for key, group in itertools.groupby(seq)]
\* (lines 332-333): the maximal runs of equal values, as <<length, key>>
GroupBy(seq) == GroupByLoop(seq, <<>>, 1, Len(seq))

RECURSIVE ZeroRunSymbols_Over16(_, _)
\* `while length > 16`: a run of exactly 16 zeros is kept as the run 16
ZeroRunSymbols_Over16(length, next_key) ==
    IF length > 16
    THEN <<ZRL>> \o ZeroRunSymbols_Over16(length - 16, next_key)
    ELSE << <<length, next_key>> >>

RECURSIVE ZeroRunSymbols(_, _)
\* The body of `if key == 0` (lines 344-350): ZRL while length >= 16, then
\* the pair of what is left of the run and the key of the next group.
ZeroRunSymbols(length, next_key) ==
    IF length >= 16 THEN <<ZRL>> \o ZeroRunSymbols(length - 16, next_key)
    ELSE << <<length, next_key>> >>

\* One pass of the for loop over the groups (lines 338-352) at group idx;
\* s = [borrow, ret] is the borrow flag and the symbols appended so far.
RunLengthStep(groups, s, idx) ==
    LET length == IF s.borrow THEN groups[idx][1] - 1 ELSE groups[idx][1]
        key == groups[idx][2]
    IN  IF length = 0 THEN [borrow |-> FALSE, ret |-> s.ret]
        ELSE IF key = 0
        THEN [borrow |-> TRUE,
              ret |-> s.ret \o ZeroRunSymbols(length, groups[idx + 1][2])]
        ELSE [borrow |-> FALSE, ret |-> s.ret \o Repeat(<<0, key>>, length)]

RECURSIVE RunLengthLoop(_, _, _, _)
\* the passes for the groups lo..hi, by halves
RunLengthLoop(groups, s, lo, hi) ==
    IF lo > hi THEN s
    ELSE IF lo = hi THEN RunLengthStep(groups, s, lo)
    ELSE LET mid == (lo + hi) \div 2
             left == RunLengthLoop(groups, s, lo, mid)
         IN  IF Evaluated(left) THEN RunLengthLoop(groups, left, mid + 1, hi)
             ELSE left

\* encode_run_length that leaves EOB out after a vector whose last value is
\* nonzero
encode_run_length_NoEOBAfterLast(seq) ==
    LET all == GroupBy(seq)
    IN  IF Last(all)[2] = 0
        THEN RunLengthLoop(SubSeq(all, 1, Len(all) - 1),
                           [borrow |-> FALSE, ret |-> <<>>],
                           1, Len(all) - 1).ret
             \o <<EOB>>
        ELSE RunLengthLoop(all, [borrow |-> FALSE, ret |-> <<>>],
                           1, Len(all)).ret

\* encode_run_length(seq) for a non-empty seq (groups[-1] of an empty list
\* is an IndexError; the Encoder passes the 63 AC values of a block)
encode_run_length(seq) ==
    LET all == GroupBy(seq)
        groups == IF Last(all)[2] = 0
                  THEN SubSeq(all, 1, Len(all) - 1) ELSE all
    IN  RunLengthLoop(groups, [borrow |-> FALSE, ret |-> <<>>],
                      1, Len(groups)).ret
        \o <<EOB>>

\* tuple(item for l, k in seq for item in [0] * l + [k])
Expand(seq) ==
    Flatten([i \in 1..Len(seq) |-> Repeat(0, seq[i][1]) \o <<seq[i][2]>>])

\* decode_run_length without the [:-1]
decode_run_length_NoStrip(seq) == Expand(seq)

\* decode_run_length(seq): the expansion without its last element ([:-1],
\* which leaves an empty tuple empty)
decode_run_length(seq) ==
    LET items == Expand(seq)
    IN  IF items = <<>> THEN <<>> ELSE SubSeq(items, 1, Len(items) - 1)

----------------------------------------------------------------------------
(* Zig-zag traversal, codec.py lines 361-396.  A matrix is a sequence of   *)
(* rows; data[y][x] of the source is data[y + 1][x + 1] here.              *)

\* move_zig_zag_idx(i, j, size), lines 393-396
move_zig_zag_idx(i, j, size) ==
    IF j < size - 1
    THEN <<(IF i - 1 > 0 THEN i - 1 ELSE 0), j + 1>>
    ELSE <<i + 1, j>>

\* the cursor stepping with the parity test turned round
ZigZagStep_SwappedParity(x, y, size) ==
    IF (x + y) % 2 = 0
    THEN move_zig_zag_idx(x, y, size)
    ELSE LET yx == move_zig_zag_idx(y, x, size) IN <<yx[2], yx[1]>>

\* The cursor update both traversals share (lines 367-370 and 386-389):
\* <<x, y>> after one step from <<x, y>>.
ZigZagStep(x, y, size) ==
    IF (x + y) % 2 = 1
    THEN move_zig_zag_idx(x, y, size)
    ELSE LET yx == move_zig_zag_idx(y, x, size) IN <<yx[2], yx[1]>>

RECURSIVE ZigZagPath(_, _, _, _)
\* the cursors <<x, y>> of n consecutive passes of either traversal, the
\* first at <<x, y>>; by halves
ZigZagPath(x, y, n, size) ==
    IF n = 0 THEN <<>>
    ELSE IF n = 1 THEN << <<x, y>> >>
    ELSE LET first == ZigZagPath(x, y, n \div 2, size)
             stop == Last(first)
             next == ZigZagStep(stop[1], stop[2], size)
         IN  first \o ZigZagPath(next[1], next[2], n - (n \div 2), size)

\* list(iter_zig_zag(data)) for a square matrix (a matrix that is not square
\* raises ValueError, line 363): one value per element of data, read at the
\* cursor of each pass
iter_zig_zag(data) ==
    LET path == ZigZagPath(0, 0, Len(data) * Len(data), Len(data))
    IN  [k \in 1..Len(path) |-> data[path[k][2] + 1][path[k][1] + 1]]

\* the cells of a size x size array
Cells(size) == (0..(size - 1)) \X (0..(size - 1))

\* the array as a sequence of rows, once every cell has been written
AsMatrix(ret, size) ==
    [r \in 1..size |-> [c \in 1..size |-> ret[<<r - 1, c - 1>>]]]

\* inverse_iter_zig_zag(seq, size, fill) with size given (lines 381-390).
\* ret is the array, a function on the cells <<y, x>> the loop has written
\* (np.empty leaves the others without a defined value), each holding the
\* last value written there; a cursor outside the array is numpy's
\* IndexError, and ret is then never returned.
inverse_iter_zig_zag(seq, size, fill) ==
    LET missing == size * size - Len(seq)
        padded == seq \o Repeat(fill, IF missing > 0 THEN missing ELSE 0)
        path == ZigZagPath(0, 0, Len(padded), size)
        outside == {k \in 1..Len(path) :
                      path[k][1] >= size \/ path[k][2] >= size}
        cells == {<<path[k][2], path[k][1]>> : k \in 1..Len(path)}
    IN  IF outside # {} THEN [raised |-> "IndexError", ret |-> <<>>]
        ELSE [raised |-> "none",
              ret |-> [c \in cells |->
                         LET ks == {k \in 1..Len(path) :
                                      <<path[k][2], path[k][1]>> = c}
                         IN  padded[CHOOSE k \in ks : \A j \in ks : j <= k]]]

----------------------------------------------------------------------------
(* Encoder, codec.py lines 18-107.  A layer is a sequence of 8 x 8 blocks; *)
(* a cached attribute is [none |-> TRUE] while it is None and otherwise    *)
(* holds the dict as a function on the layers assigned so far.             *)

BlockSize == 8

None == [none |-> TRUE, map |-> <<>>]
Dict(map) == [none |-> FALSE, map |-> map]

\* cr stacked on cb
EncoderData_CrFirst(y, cb, cr) ==
    (LUMINANCE :> y) @@ (CHROMINANCE :> (cr \o cb))

\* Encoder.__init__ (lines 26-29): y, and cb stacked on cr
EncoderData(y, cb, cr) ==
    (LUMINANCE :> y) @@ (CHROMINANCE :> (cb \o cr))

\* Encoder._get_diff_dc (lines 91-92): l[:, 0, 0] of every layer
Encoder_get_diff_dc(data) ==
    [k \in DOMAIN data |->
        encode_differential([b \in 1..Len(data[k]) |-> data[k][b][1][1]])]

\* Encoder._get_run_length_ac (lines 102-107)
Encoder_get_run_length_ac(data) ==
    [key \in DOMAIN data |->
        Flatten([b \in 1..Len(data[key]) |->
                    encode_run_length(Tail(iter_zig_zag(data[key][b])))])]

\* ''.join(parts): the exception of the first part that raises ends the join
Join(parts) ==
    LET bad == {i \in 1..Len(parts) : parts[i].raised # "none"}
    IN  IF bad # {}
        THEN parts[CHOOSE i \in bad : \A j \in bad : i <= j]
        ELSE [raised |-> "none",
              bits |-> Flatten([i \in 1..Len(parts) |-> parts[i].bits])]

\* ''.join(encode_huffman(v, layer_type) for v in values)
JoinEncoded(symbols, kind, layer) ==
    Join(Tuple([i \in 1..Len(symbols) |->
                  encode_huffman(symbols[i], kind, layer)]))

NoBits == (LUMINANCE :> <<>>) @@ (CHROMINANCE :> <<>>)

\* the joins of lines 74-80 in the order the loop makes them
JoinOrder ==
    << <<DC, LUMINANCE>>, <<AC, LUMINANCE>>,
       <<DC, CHROMINANCE>>, <<AC, CHROMINANCE>> >>

\* what encode() returns or raises, given the four joins in JoinOrder.  The
\* property run_length_ac is first read for the second join, so an exception
\* of the first leaves that cache as it was (rl).
Encoded(joined, diff_dc, run_length_ac, rl) ==
    LET bad == {i \in 1..Len(joined) : joined[i].raised # "none"}
        first == CHOOSE i \in bad : \A j \in bad : i <= j
    IN  IF bad # {}
        THEN [raised |-> joined[first].raised,
              ret |-> [DC |-> NoBits, AC |-> NoBits],
              diff_dc |-> diff_dc,
              run_length_ac |-> IF first = 1 THEN rl ELSE run_length_ac]
        ELSE [raised |-> "none",
              ret |-> [DC |-> (LUMINANCE :> joined[1].bits)
                               @@ (CHROMINANCE :> joined[3].bits),
                       AC |-> (LUMINANCE :> joined[2].bits)
                               @@ (CHROMINANCE :> joined[4].bits)],
              diff_dc |-> diff_dc, run_length_ac |-> run_length_ac]

\* the loop of lines 74-80 over the attributes as the properties give them
EncodeLayers(diff_dc, run_length_ac, rl) ==
    Encoded(Tuple([i \in 1..Len(JoinOrder) |->
                     JoinEncoded((IF JoinOrder[i][1] = DC
                                  THEN diff_dc
                                  ELSE run_length_ac).map[JoinOrder[i][2]],
                                 JoinOrder[i][1], JoinOrder[i][2])]),
            diff_dc, run_length_ac, rl)

\* Encoder.encode (lines 73-81) on an Encoder whose cached attributes are
\* diff and rl.  The properties diff_dc and run_length_ac fill the caches on
\* first use, so the result carries the caches as the call leaves them.
Encoder_encode(data, diff, rl) ==
    EncodeLayers(
        IF diff.none THEN Dict(Encoder_get_diff_dc(data)) ELSE diff,
        IF rl.none THEN Dict(Encoder_get_run_length_ac(data)) ELSE rl,
        rl)

----------------------------------------------------------------------------
(* Decoder, codec.py lines 110-190.                                        *)

Layers == <<LUMINANCE, CHROMINANCE>>

\* the dict of Decoder._get_dc from the layers' decoded streams s, in the
\* order of Layers
DcDict(s) ==
    IF s[1].raised # "none" THEN [raised |-> s[1].raised, dc |-> None]
    ELSE IF s[2].raised # "none" THEN [raised |-> s[2].raised, dc |-> None]
    ELSE [raised |-> "none",
          dc |-> Dict((LUMINANCE :> decode_differential(s[1].values))
                      @@ (CHROMINANCE :> decode_differential(s[2].values)))]

\* Decoder._get_dc (lines 171-174): the dict is assigned once every layer
\* is decoded, so an exception leaves _dc as it was (None)
Decoder_get_dc(data) ==
    DcDict(Tuple([i \in 1..Len(Layers) |->
                    decode_huffman(data[DC][Layers[i]], DC, Layers[i])]))

\* the elements of a finite set of integers in increasing order
Ascending(S) ==
    [g \in 1..Cardinality(S) |->
        CHOOSE i \in S : Cardinality({j \in S : j <= i}) = g]

\* isplit yielding at the end what follows the last splitter as well
isplit_KeepsRest(items, splitter) ==
    LET cuts == Ascending({i \in 1..Len(items) : items[i] = splitter})
        last == IF cuts = <<>> THEN 0 ELSE cuts[Len(cuts)]
    IN  [g \in 1..Len(cuts) |->
            SubSeq(items, (IF g = 1 THEN 0 ELSE cuts[g - 1]) + 1, cuts[g])]
        \o (IF last < Len(items)
            THEN <<SubSeq(items, last + 1, Len(items))>> ELSE <<>>)

\* list(isplit(iterable, splitter)) (lines 177-183): ret collects the items
\* up to and with each splitter and is yielded there; what follows the last
\* splitter is never yielded.  The groups are cut at the positions of the
\* splitter.
isplit(items, splitter) ==
    LET cuts == Ascending({i \in 1..Len(items) : items[i] = splitter})
    IN  [g \in 1..Len(cuts) |->
            SubSeq(items, (IF g = 1 THEN 0 ELSE cuts[g - 1]) + 1, cuts[g])]

\* tuple(decode_run_length(pairs) for pairs in groups)
DecodeGroups(groups) ==
    [g \in 1..Len(groups) |-> decode_run_length(groups[g])]

\* one layer of Decoder._get_ac (lines 187-190) from its decoded stream.
\* decode_huffman is consumed lazily, but an exception anywhere in the
\* stream ends the tuple(...) call before the layer is assigned.
DecodeACLayer(syms) ==
    [raised |-> syms.raised, blocks |-> DecodeGroups(isplit(syms.values, EOB))]

\* the dict of Decoder._get_ac from the layers s, in the order of Layers:
\* the layers assigned before an exception stay in it
AcDict(s) ==
    IF s[1].raised # "none" THEN [raised |-> s[1].raised, ac |-> Dict(<<>>)]
    ELSE IF s[2].raised # "none"
    THEN [raised |-> s[2].raised, ac |-> Dict(LUMINANCE :> s[1].blocks)]
    ELSE [raised |-> "none",
          ac |-> Dict((LUMINANCE :> s[1].blocks)
                      @@ (CHROMINANCE :> s[2].blocks))]

\* Decoder._get_ac (lines 185-190): _ac is set to {} and then filled layer
\* by layer, so an exception leaves the layers decoded before it
Decoder_get_ac(data) ==
    AcDict(Tuple([i \in 1..Len(Layers) |->
                    DecodeACLayer(decode_huffman(data[AC][Layers[i]], AC,
                                                 Layers[i]))]))

\* the property Decoder.dc (lines 159-162)
Decoder_dc(data, dc) ==
    IF dc.none THEN Decoder_get_dc(data) ELSE [raised |-> "none", dc |-> dc]

\* the property Decoder.ac (lines 165-168)
Decoder_ac(data, ac) ==
    IF ac.none THEN Decoder_get_ac(data) ELSE [raised |-> "none", ac |-> ac]

\* np.array(tuple(...)) of the shaped blocks: the first exception ends it
Shaped(shaped) ==
    LET bad == {b \in 1..Len(shaped) : shaped[b].raised # "none"}
    IN  IF bad # {}
        THEN [raised |-> shaped[CHOOSE b \in bad : \A j \in bad : b <= j].raised,
              blocks |-> <<>>]
        ELSE [raised |-> "none",
              blocks |-> [b \in 1..Len(shaped) |->
                            AsMatrix(shaped[b].ret, BlockSize)]]

\* lines 145-148: inverse_iter_zig_zag((dc, ) + ac, size=8) for the pairs of
\* zip(dc, ac)
ShapeBlocks(dcs, acs) ==
    Shaped(Tuple([b \in 1..(IF Len(dcs) < Len(acs)
                             THEN Len(dcs) ELSE Len(acs)) |->
                    inverse_iter_zig_zag(<<dcs[b]>> \o acs[b], BlockSize, 0)]))

NoBlocks == [y |-> <<>>, cb |-> <<>>, cr |-> <<>>]

\* what decode() returns
Decoded(what, d, a, blocks) ==
    [raised |-> what, dc |-> d.dc, ac |-> a.ac, blocks |-> blocks]

\* np.split(shaped[CHROMINANCE], 2) and the OrderedDict of lines 150-156
SplitChroma(d, a, shaped) ==
    IF shaped[1].raised # "none"
    THEN Decoded(shaped[1].raised, d, a, NoBlocks)
    ELSE IF shaped[2].raised # "none"
    THEN Decoded(shaped[2].raised, d, a, NoBlocks)
    ELSE Decoded("none", d, a,
             [y |-> shaped[1].blocks,
              cb |-> SubSeq(shaped[2].blocks, 1,
                            Len(shaped[2].blocks) \div 2),
              cr |-> SubSeq(shaped[2].blocks,
                            Len(shaped[2].blocks) \div 2 + 1,
                            Len(shaped[2].blocks))])

\* lines 132-156 once the properties dc and ac have given d and a
DecodeShaped(d, a) ==
    \* `or` evaluates self.ac when the DC count is even, and the message
    \* of the ValueError evaluates it when the DC count is odd
    IF a.raised # "none" THEN Decoded(a.raised, d, a, NoBlocks)
    ELSE IF CHROMINANCE \notin DOMAIN a.ac.map
    THEN Decoded("KeyError", d, a, NoBlocks)
    ELSE IF Len(d.dc.map[CHROMINANCE]) % 2 = 1
            \/ Len(a.ac.map[CHROMINANCE]) % 2 = 1
    THEN Decoded("ValueError", d, a, NoBlocks)
    ELSE IF Len(d.dc.map[LUMINANCE]) # Len(a.ac.map[LUMINANCE])
    THEN Decoded("ValueError", d, a, NoBlocks)
    ELSE IF Len(d.dc.map[CHROMINANCE]) # Len(a.ac.map[CHROMINANCE])
            /\ ShapeBlocks(d.dc.map[LUMINANCE],
                           a.ac.map[LUMINANCE]).raised = "none"
    THEN Decoded("ValueError", d, a, NoBlocks)
    ELSE SplitChroma(d, a,
             Tuple([i \in 1..Len(Layers) |->
                      ShapeBlocks(d.dc.map[Layers[i]], a.ac.map[Layers[i]])]))

\* decode() once the property dc has given d: its exception comes before
\* the property ac is read
DecodeWith(d, data, ac0) ==
    IF d.raised # "none" THEN Decoded(d.raised, d, [ac |-> ac0], NoBlocks)
    ELSE DecodeShaped(d, Decoder_ac(data, ac0))

\* Decoder.decode (lines 132-156) on a Decoder whose cached attributes are
\* dc0 and ac0.  The result carries the caches as the call leaves them.
Decoder_decode(data, dc0, ac0) ==
    DecodeWith(Decoder_dc(data, dc0), data, ac0)

----------------------------------------------------------------------------
(* The bit-level codec as a state machine: encode_huffman is applied to one *)
(* symbol after the other and the results are joined (Encoder.encode, lines *)
(* 75-80); decode_huffman then runs over the joined bits, one iteration of  *)
(* its outer loop per step.                                                 *)

MaxSymbols == 3
MaxAbsDC == 2049
MaxAbsAC == 1025
MaxRun == 15

\* symbols that may appear anywhere in a sequence
DCSample == {0, 1, 3, -5, -1024, 2047}
ACSample == {EOB, ZRL, <<0, 1>>, <<0, 2>>, <<7, -2>>, <<15, -1023>>}

\* the first and last value of every category, the first values out of range
EdgeValues ==
    {0, 1024, -1024}
    \cup UNION {{2^(s - 1), 2^s - 1, -(2^(s - 1)), -(2^s - 1)} : s \in 1..10}

\* symbols tried alone: every DC difference up to just out of range, and
\* every table key of the AC tables, with the whole value range for the
\* shortest and the longest run
DCSingles == (-MaxAbsDC)..MaxAbsDC
ACSingles ==
    {<<r, v>> : r \in 0..MaxRun, v \in EdgeValues}
    \cup {<<r, v>> : r \in {0, MaxRun}, v \in (-MaxAbsAC)..MaxAbsAC}

HuffInputs(kind, sofar) ==
    IF sofar = <<>>
    THEN IF kind = DC THEN DCSingles ELSE ACSingles
    ELSE IF kind = DC THEN DCSample ELSE ACSample

InSample(kind, sofar) ==
    \A i \in 1..Len(sofar) :
        sofar[i] \in (IF kind = DC THEN DCSample ELSE ACSample)

\* the variables of a machine that is not running
HuffmanIdle ==
    /\ dc_ac = DC
    /\ layer_type = LUMINANCE
    /\ values = <<>>
    /\ bit_seq = <<>>
    /\ current_idx = 0
    /\ yielded = <<>>
    /\ hpc = "idle"
    /\ raised = "none"

HuffInit ==
    /\ dc_ac \in {DC, AC}
    /\ layer_type \in {LUMINANCE, CHROMINANCE}
    /\ values = <<>>
    /\ bit_seq = <<>>
    /\ current_idx = 0
    /\ yielded = <<>>
    /\ hpc = "encode"
    /\ raised = "none"

\* one more encode_huffman(v, layer_type) joined to the bit string
EncodeSymbol ==
    /\ UNCHANGED <<rvars, zvars, pvars, dvars>>
    /\ hpc = "encode"
    /\ Len(values) < MaxSymbols
    /\ InSample(dc_ac, values)
    /\ \E v \in HuffInputs(dc_ac, values) :
          \E r \in {encode_huffman(v, dc_ac, layer_type)} :
              /\ values' = Append(values, v)
              /\ IF r.raised = "none"
                 THEN /\ bit_seq' = bit_seq \o r.bits
                      /\ UNCHANGED <<hpc, raised>>
                 ELSE /\ hpc' = "encode_raised"
                      /\ raised' = r.raised
                      /\ UNCHANGED bit_seq
    /\ UNCHANGED <<dc_ac, layer_type, current_idx, yielded>>

\* decode_huffman(bit_seq, dc_ac, layer_type) is called: lines 270-271
StartDecode ==
    /\ UNCHANGED <<rvars, zvars, pvars, dvars>>
    /\ hpc = "encode"
    /\ hpc' = "decode"
    /\ current_idx' = 0
    /\ yielded' = <<>>
    /\ UNCHANGED <<dc_ac, layer_type, values, bit_seq, raised>>

\* one iteration of `while current_idx < bit_len` (lines 272-317)
DecodeIteration ==
    /\ UNCHANGED <<rvars, zvars, pvars, dvars>>
    /\ hpc = "decode"
    /\ current_idx < Len(bit_seq)
    /\ \E it \in {decode_iteration(bit_seq, current_idx, dc_ac, layer_type)} :
           IF it.raised = "none"
           THEN /\ yielded' = Append(yielded, it.value)
                /\ current_idx' = it.idx
                /\ UNCHANGED <<hpc, raised>>
           ELSE /\ hpc' = "decode_raised"
                /\ raised' = it.raised
                /\ UNCHANGED <<yielded, current_idx>>
    /\ UNCHANGED <<dc_ac, layer_type, values, bit_seq>>

\* the loop condition fails: the generator is exhausted
DecodeDone ==
    /\ UNCHANGED <<rvars, zvars, pvars, dvars>>
    /\ hpc = "decode"
    /\ current_idx >= Len(bit_seq)
    /\ hpc' = "done"
    /\ UNCHANGED <<dc_ac, layer_type, values, bit_seq, current_idx, yielded,
                   raised>>

----------------------------------------------------------------------------
(* The run-length coder as a state machine: one vector of 63 AC values is  *)
(* encoded by encode_run_length and the result decoded by                  *)
(* decode_run_length.                                                      *)

NumAC == BlockSize * BlockSize - 1
MaxNonzero == 3

\* where the nonzero values of a vector may stand: next to each other, 15,
\* 16 and 32 zeros apart, and at the very end
ACPositions == {1, 2, 3, 17, 18, 35, 36, 50, 62, 63}
ACValues == {1, -1, 2}

\* the vector with the given values at the given positions, 0 elsewhere
SparseVector(at) == [i \in 1..NumAC |-> IF i \in DOMAIN at THEN at[i] ELSE 0]

ACVectors ==
    {SparseVector(at) :
        at \in UNION {[ps -> ACValues] :
                        ps \in {q \in SUBSET ACPositions :
                                   Cardinality(q) <= MaxNonzero}}}

RunLengthIdle ==
    /\ rl_seq = <<>>
    /\ rl_encoded = <<>>
    /\ rl_decoded = <<>>
    /\ rpc = "idle"

RunLengthInit ==
    /\ rl_seq \in ACVectors
    /\ rl_encoded = <<>>
    /\ rl_decoded = <<>>
    /\ rpc = "start"

RunEncodeRunLength ==
    /\ UNCHANGED <<hvars, zvars, pvars, dvars>>
    /\ rpc = "start"
    /\ rl_encoded' = encode_run_length(rl_seq)
    /\ rpc' = "encoded"
    /\ UNCHANGED <<rl_seq, rl_decoded>>

RunDecodeRunLength ==
    /\ UNCHANGED <<hvars, zvars, pvars, dvars>>
    /\ rpc = "encoded"
    /\ rl_decoded' = decode_run_length(rl_encoded)
    /\ rpc' = "decoded"
    /\ UNCHANGED <<rl_seq, rl_encoded>>

----------------------------------------------------------------------------
(* Zig-zag traversal as a state machine: iter_zig_zag runs over a square   *)
(* matrix one yield per step, then inverse_iter_zig_zag runs over what was *)
(* yielded, one write per step.                                            *)

MaxSize == 8

\* the matrix [[1, 2, .., N], [N + 1, ..], ..] and its transpose
CountingMatrix(n) == [r \in 1..n |-> [c \in 1..n |-> (r - 1) * n + c]]
TransposedMatrix(n) == [r \in 1..n |-> [c \in 1..n |-> (c - 1) * n + r]]

ZigZagIdle ==
    /\ zz_data = <<>>
    /\ zz_x = 0
    /\ zz_y = 0
    /\ zz_seq = <<>>
    /\ zz_visited = <<>>
    /\ zz_k = 0
    /\ zz_ret = <<>>
    /\ zpc = "idle"

ZigZagInit ==
    /\ \E n \in 1..MaxSize :
          zz_data \in {CountingMatrix(n), TransposedMatrix(n)}
    /\ zz_x = 0
    /\ zz_y = 0
    /\ zz_seq = <<>>
    /\ zz_visited = <<>>
    /\ zz_k = 0
    /\ zz_ret = <<>>
    /\ zpc = "iter"

InBounds(x, y, size) == x >= 0 /\ x < size /\ y >= 0 /\ y < size

\* one iteration of the for loop of iter_zig_zag (lines 365-370); a cursor
\* outside the matrix is numpy's IndexError
IterZigZagYield ==
    /\ UNCHANGED <<hvars, rvars, pvars, dvars>>
    /\ zpc = "iter"
    /\ Len(zz_seq) < Len(zz_data) * Len(zz_data)
    /\ IF InBounds(zz_x, zz_y, Len(zz_data))
       THEN /\ zz_seq' = Append(zz_seq, zz_data[zz_y + 1][zz_x + 1])
            /\ zz_visited' = Append(zz_visited, <<zz_y, zz_x>>)
            /\ LET next == ZigZagStep(zz_x, zz_y, Len(zz_data))
               IN  zz_x' = next[1] /\ zz_y' = next[2]
            /\ UNCHANGED zpc
       ELSE /\ zpc' = "raised"
            /\ UNCHANGED <<zz_seq, zz_visited, zz_x, zz_y>>
    /\ UNCHANGED <<zz_data, zz_k, zz_ret>>

\* the generator is exhausted; inverse_iter_zig_zag(seq, size=N) is called
\* (lines 381-383)
StartInverseZigZag ==
    /\ UNCHANGED <<hvars, rvars, pvars, dvars>>
    /\ zpc = "iter"
    /\ Len(zz_seq) = Len(zz_data) * Len(zz_data)
    /\ zz_x' = 0
    /\ zz_y' = 0
    /\ zz_k' = 0
    /\ zz_ret' = <<>>
    /\ zpc' = "inverse"
    /\ UNCHANGED <<zz_data, zz_seq, zz_visited>>

\* one iteration of the for loop of inverse_iter_zig_zag (lines 384-389)
InverseZigZagWrite ==
    /\ UNCHANGED <<hvars, rvars, pvars, dvars>>
    /\ zpc = "inverse"
    /\ zz_k < Len(zz_seq)
    /\ IF InBounds(zz_x, zz_y, Len(zz_data))
       THEN LET cell == <<zz_y, zz_x>>
                next == ZigZagStep(zz_x, zz_y, Len(zz_data))
            IN  /\ zz_ret' = [c \in DOMAIN zz_ret \cup {cell} |->
                                 IF c = cell THEN zz_seq[zz_k + 1]
                                 ELSE zz_ret[c]]
                /\ zz_x' = next[1]
                /\ zz_y' = next[2]
                /\ zz_k' = zz_k + 1
                /\ UNCHANGED zpc
       ELSE /\ zpc' = "raised"
            /\ UNCHANGED <<zz_ret, zz_x, zz_y, zz_k>>
    /\ UNCHANGED <<zz_data, zz_seq, zz_visited>>

\* every value is placed: inverse_iter_zig_zag returns ret (line 390)
InverseZigZagReturn ==
    /\ UNCHANGED <<hvars, rvars, pvars, dvars>>
    /\ zpc = "inverse"
    /\ zz_k = Len(zz_seq)
    /\ zpc' = "done"
    /\ UNCHANGED <<zz_data, zz_x, zz_y, zz_seq, zz_visited, zz_k, zz_ret>>

----------------------------------------------------------------------------
(* The Encoder and the Decoder as a state machine: an Encoder is built on   *)
(* {y, cb, cr}; its properties and encode() are called; a Decoder is built  *)
(* on what encode() returned; its properties and decode() are called.       *)

MaxLumaBlocks == 2
MaxChromaBlocks == 1

\* the 8 x 8 block with the given values at the given cells <<row, column>>
\* (counted from 0) and 0 elsewhere
SparseBlock(at) ==
    [r \in 1..BlockSize |-> [c \in 1..BlockSize |->
        IF <<r - 1, c - 1>> \in DOMAIN at THEN at[<<r - 1, c - 1>>] ELSE 0]]

DCOnlyBlock(v) == SparseBlock(<<0, 0>> :> v)
\* a block without a zero: every cell between -1023 and 1023
DenseBlock ==
    [r \in 1..BlockSize |-> [c \in 1..BlockSize |->
        IF (r + c) % 2 = 0 THEN 16 * r + c ELSE -(100 * c + r)]]
\* the first and the last zig-zag position nonzero, the extreme AC values
LastBlock ==
    SparseBlock((<<0, 0>> :> 10) @@ (<<0, 1>> :> -1) @@ (<<1, 0>> :> 1023)
                @@ (<<7, 7>> :> -1023))
\* 16 zeros before the value at zig-zag position 17, cell (2, 3)
ZRLBlock == SparseBlock((<<0, 0>> :> -2) @@ (<<2, 3>> :> 2))
\* an AC value out of range
OverACBlock == SparseBlock((<<0, 0>> :> 1) @@ (<<0, 1>> :> 1024))

\* DCOnlyBlock(2047) before a block of negative DC gives a DC difference
\* below -2047
LumaBlocks ==
    {DCOnlyBlock(5), DCOnlyBlock(2047), DenseBlock, LastBlock, ZRLBlock,
     OverACBlock}
ChromaBlocks == {DCOnlyBlock(10), DCOnlyBlock(7), LastBlock}

SeqsUpTo(S, n) == UNION {[1..k -> S] : k \in 0..n}

\* the inputs: the luminance plane varies beside a fixed chrominance pair,
\* or the two chrominance planes vary, each on its own length, beside a
\* fixed luminance plane
PipelineInputs ==
    {[y |-> y, cb |-> <<DCOnlyBlock(10)>>, cr |-> <<DCOnlyBlock(7)>>] :
        y \in SeqsUpTo(LumaBlocks, MaxLumaBlocks)}
    \cup {[y |-> <<DCOnlyBlock(5)>>, cb |-> cb, cr |-> cr] :
            cb \in SeqsUpTo(ChromaBlocks, MaxChromaBlocks),
            cr \in SeqsUpTo(ChromaBlocks, MaxChromaBlocks)}

NoResult == [DC |-> NoBits, AC |-> NoBits]

PipelineIdle ==
    /\ input = NoBlocks
    /\ enc_data = <<>>
    /\ enc_diff_dc = None
    /\ enc_run_length_ac = None
    /\ encoded = NoResult
    /\ dec_dc = None
    /\ dec_ac = None
    /\ decoded = NoBlocks
    /\ praised = "none"
    /\ ppc = "idle"

PipelineInit ==
    /\ input \in PipelineInputs
    /\ enc_data = EncoderData(input.y, input.cb, input.cr)
    /\ enc_diff_dc = None
    /\ enc_run_length_ac = None
    /\ encoded = NoResult
    /\ dec_dc = None
    /\ dec_ac = None
    /\ decoded = NoBlocks
    /\ praised = "none"
    /\ ppc = "encoder"

\* the property Encoder.diff_dc is read (lines 39-42)
EncoderDiffDc ==
    /\ UNCHANGED <<hvars, rvars, zvars, dvars>>
    /\ ppc = "encoder"
    /\ enc_diff_dc.none
    /\ enc_diff_dc' = Dict(Encoder_get_diff_dc(enc_data))
    /\ UNCHANGED <<input, enc_data, enc_run_length_ac, encoded, dec_dc,
                   dec_ac, decoded, praised, ppc>>

\* the property Encoder.run_length_ac is read (lines 49-52)
EncoderRunLengthAc ==
    /\ UNCHANGED <<hvars, rvars, zvars, dvars>>
    /\ ppc = "encoder"
    /\ enc_run_length_ac.none
    /\ enc_run_length_ac' = Dict(Encoder_get_run_length_ac(enc_data))
    /\ UNCHANGED <<input, enc_data, enc_diff_dc, encoded, dec_dc, dec_ac,
                   decoded, praised, ppc>>

\* Encoder.encode() (lines 58-81)
EncoderEncode ==
    /\ UNCHANGED <<hvars, rvars, zvars, dvars>>
    /\ ppc = "encoder"
    /\ \E r \in {Encoder_encode(enc_data, enc_diff_dc, enc_run_length_ac)} :
           /\ enc_diff_dc' = r.diff_dc
           /\ enc_run_length_ac' = r.run_length_ac
           /\ encoded' = r.ret
           /\ praised' = r.raised
           /\ ppc' = IF r.raised = "none" THEN "encoded" ELSE "encode_raised"
    /\ UNCHANGED <<input, enc_data, dec_dc, dec_ac, decoded>>

\* Decoder(data) on the dict encode() returned (lines 123-129)
NewDecoder ==
    /\ UNCHANGED <<hvars, rvars, zvars, dvars>>
    /\ ppc = "encoded"
    /\ dec_dc' = None
    /\ dec_ac' = None
    /\ ppc' = "decoder"
    /\ UNCHANGED <<input, enc_data, enc_diff_dc, enc_run_length_ac, encoded,
                   decoded, praised>>

\* the property Decoder.dc is read (lines 159-162)
DecoderDc ==
    /\ UNCHANGED <<hvars, rvars, zvars, dvars>>
    /\ ppc = "decoder"
    /\ dec_dc.none
    /\ \E r \in {Decoder_dc(encoded, dec_dc)} :
           /\ dec_dc' = r.dc
           /\ praised' = r.raised
           /\ ppc' = IF r.raised = "none" THEN ppc ELSE "decode_raised"
    /\ UNCHANGED <<input, enc_data, enc_diff_dc, enc_run_length_ac, encoded,
                   dec_ac, decoded>>

\* the property Decoder.ac is read (lines 165-168)
DecoderAc ==
    /\ UNCHANGED <<hvars, rvars, zvars, dvars>>
    /\ ppc = "decoder"
    /\ dec_ac.none
    /\ \E r \in {Decoder_ac(encoded, dec_ac)} :
           /\ dec_ac' = r.ac
           /\ praised' = r.raised
           /\ ppc' = IF r.raised = "none" THEN ppc ELSE "decode_raised"
    /\ UNCHANGED <<input, enc_data, enc_diff_dc, enc_run_length_ac, encoded,
                   dec_dc, decoded>>

\* Decoder.decode() (lines 131-156)
DecoderDecode ==
    /\ UNCHANGED <<hvars, rvars, zvars, dvars>>
    /\ ppc = "decoder"
    /\ \E r \in {Decoder_decode(encoded, dec_dc, dec_ac)} :
           /\ dec_dc' = r.dc
           /\ dec_ac' = r.ac
           /\ decoded' = r.blocks
           /\ praised' = r.raised
           /\ ppc' = IF r.raised = "none" THEN "decoded" ELSE "decode_raised"
    /\ UNCHANGED <<input, enc_data, enc_diff_dc, enc_run_length_ac, encoded>>

----------------------------------------------------------------------------
(* The differential coder: encode_differential, then decode_differential  *)
(* on its result.                                                          *)

MaxSeqLen == 4
MaxAbsItem == 2

DifferentialIdle ==
    /\ diff_seq = <<>>
    /\ diff_encoded = <<>>
    /\ diff_decoded = <<>>
    /\ dpc = "idle"

DifferentialInit ==
    /\ diff_seq \in UNION {[1..n -> (-MaxAbsItem)..MaxAbsItem] :
                           n \in 0..MaxSeqLen}
    /\ diff_encoded = <<>>
    /\ diff_decoded = <<>>
    /\ dpc = "start"

RunEncodeDifferential ==
    /\ UNCHANGED <<hvars, rvars, zvars, pvars>>
    /\ dpc = "start"
    /\ diff_encoded' = encode_differential(diff_seq)
    /\ dpc' = "encoded"
    /\ UNCHANGED <<diff_seq, diff_decoded>>

RunDecodeDifferential ==
    /\ UNCHANGED <<hvars, rvars, zvars, pvars>>
    /\ dpc = "encoded"
    /\ diff_decoded' = decode_differential(diff_encoded)
    /\ dpc' = "decoded"
    /\ UNCHANGED <<diff_seq, diff_encoded>>

----------------------------------------------------------------------------
(* The specifications: one machine runs, the others stay idle.            *)

HuffNext == EncodeSymbol \/ StartDecode \/ DecodeIteration \/ DecodeDone

InitHuffman ==
    HuffInit /\ RunLengthIdle /\ ZigZagIdle /\ PipelineIdle
    /\ DifferentialIdle

SpecHuffman ==
    /\ InitHuffman
    /\ [][HuffNext]_vars

RunLengthNext == RunEncodeRunLength \/ RunDecodeRunLength

InitRunLength ==
    RunLengthInit /\ HuffmanIdle /\ ZigZagIdle /\ PipelineIdle
    /\ DifferentialIdle

SpecRunLength ==
    /\ InitRunLength
    /\ [][RunLengthNext]_vars

ZigZagNext ==
    \/ IterZigZagYield
    \/ StartInverseZigZag
    \/ InverseZigZagWrite
    \/ InverseZigZagReturn

InitZigZag ==
    ZigZagInit /\ HuffmanIdle /\ RunLengthIdle /\ PipelineIdle
    /\ DifferentialIdle

SpecZigZag ==
    /\ InitZigZag
    /\ [][ZigZagNext]_vars

Next ==
    \/ EncoderDiffDc
    \/ EncoderRunLengthAc
    \/ EncoderEncode
    \/ NewDecoder
    \/ DecoderDc
    \/ DecoderAc
    \/ DecoderDecode

Init ==
    PipelineInit /\ HuffmanIdle /\ RunLengthIdle /\ ZigZagIdle
    /\ DifferentialIdle

Spec == Init /\ [][Next]_vars

DifferentialNext == RunEncodeDifferential \/ RunDecodeDifferential

InitDifferential ==
    DifferentialInit /\ HuffmanIdle /\ RunLengthIdle /\ ZigZagIdle
    /\ PipelineIdle

SpecDifferential ==
    /\ InitDifferential
    /\ [][DifferentialNext]_vars

----------------------------------------------------------------------------
(* decode_huffman on a bit string of any origin, as a state machine: the   *)
(* generator is consumed one pass of its outer loop per step.  The bit     *)
(* strings are all those of up to MaxBits bits, the encodings of two       *)
(* symbols cut off at every length, and runs of 1 longer than the window.  *)

MaxBits == 8
MaxOnes == 18

\* every bit string of up to n bits
BitStrings(n) == UNION {[1..k -> {0, 1}] : k \in 0..n}

\* the encodings of two symbols of the sample, and all that begins them
CutEncodings(kind, layer) ==
    LET sample == IF kind = DC THEN DCSample ELSE ACSample
        whole == {encode_huffman(v, kind, layer).bits
                  \o encode_huffman(w, kind, layer).bits :
                      v \in sample, w \in sample}
    IN  UNION {{SubSeq(e, 1, k) : k \in 0..Len(e)} : e \in whole}

DecodeInputs(kind, layer) ==
    BitStrings(MaxBits)
    \cup CutEncodings(kind, layer)
    \cup {Repeat(1, k) : k \in 0..MaxOnes}

\* decode_huffman(bit_seq, dc_ac, layer_type) has been called (lines 270-271)
DecodeInit ==
    /\ dc_ac \in {DC, AC}
    /\ layer_type \in {LUMINANCE, CHROMINANCE}
    /\ values = <<>>
    /\ bit_seq \in DecodeInputs(dc_ac, layer_type)
    /\ current_idx = 0
    /\ yielded = <<>>
    /\ hpc = "decode"
    /\ raised = "none"

InitDecode ==
    DecodeInit /\ RunLengthIdle /\ ZigZagIdle /\ PipelineIdle
    /\ DifferentialIdle

DecodeNext == DecodeIteration \/ DecodeDone

\* the consumer keeps calling next() until the generator ends or raises
SpecDecode ==
    /\ InitDecode
    /\ [][DecodeNext]_vars
    /\ WF_vars(DecodeNext)

----------------------------------------------------------------------------
(* The Decoder on a dict of any origin, as a state machine: Decoder(data)  *)
(* is made of four bit strings that need not come from one Encoder, its    *)
(* properties dc and ac are read and decode() is called, and after an      *)
(* exception decode() is called once more on the same object.  A layer is  *)
(* given as a stream of DC differences and a stream of AC symbols.         *)

MaxCount == 2

\* the bits of a sequence of valid symbols
Bits(kind, layer, symbols) == JoinEncoded(symbols, kind, layer).bits

\* the DC differences 1, 2, ..., n
DCSymbols(n) == [i \in 1..n |-> i]

\* the symbols of one block: without AC values, with one, and with 64 zeros
\* (one value more than a block has room for)
EmptyGroup == <<EOB>>
ShortGroup == << <<0, 2>>, EOB >>
LongGroup == <<ZRL, ZRL, ZRL, ZRL, EOB>>

\* symbols behind the last EOB of a stream
Trailers == {<< <<0, 2>> >>, <<ZRL>>, << <<3, -1>>, ZRL >>}

\* a layer of n DC differences beside the AC symbols acs
Layer(layer, n, acs) ==
    [dc |-> Bits(DC, layer, DCSymbols(n)), ac |-> Bits(AC, layer, acs)]

\* n DC differences beside any groups of up to MaxCount blocks
CountedLayers(layer) ==
    {Layer(layer, n, Flatten(gs)) :
        n \in 0..MaxCount,
        gs \in SeqsUpTo({EmptyGroup, ShortGroup}, MaxCount)}

\* n blocks and symbols behind the last EOB
TrailedLayers(layer) ==
    {Layer(layer, n, Flatten(Repeat(ShortGroup, n)) \o t) :
        n \in 0..MaxCount, t \in Trailers}

\* n blocks of 65 values each
LongLayers(layer) ==
    {Layer(layer, n, Flatten(Repeat(LongGroup, n))) : n \in 1..MaxCount}

\* streams decode_huffman raises on: a DC stream whose last amplitude lacks
\* a bit, an AC stream with a bit left over, an AC stream whose last
\* amplitude is missing; each beside a sound stream of the other kind
BrokenLayers(layer) ==
    {[dc |-> SubSeq(Bits(DC, layer, <<1, 2>>), 1,
                    Len(Bits(DC, layer, <<1, 2>>)) - 1),
      ac |-> Bits(AC, layer, Flatten(Repeat(ShortGroup, 2)))],
     [dc |-> Bits(DC, layer, <<1, 2>>),
      ac |-> Bits(AC, layer, Flatten(Repeat(ShortGroup, 2))) \o <<1>>],
     [dc |-> Bits(DC, layer, <<1, 2>>),
      ac |-> Bits(AC, layer, ShortGroup)
             \o HUFFMAN_CATEGORY_CODEWORD[AC][layer][<<0, 2>>]]}

LayerCases(layer) ==
    CountedLayers(layer) \cup TrailedLayers(layer)
    \cup LongLayers(layer) \cup BrokenLayers(layer)

\* the layers the other layer is varied beside
FewLayers(layer) ==
    {Layer(layer, 0, <<>>),
     Layer(layer, 2, Flatten(Repeat(ShortGroup, 2)))}
    \cup LongLayers(layer)

\* the dict Decoder.__init__ takes
Data(l, c) ==
    [DC |-> (LUMINANCE :> l.dc) @@ (CHROMINANCE :> c.dc),
     AC |-> (LUMINANCE :> l.ac) @@ (CHROMINANCE :> c.ac)]

DecoderInputs ==
    {Data(l, c) : l \in LayerCases(LUMINANCE), c \in FewLayers(CHROMINANCE)}
    \cup {Data(l, c) :
            l \in FewLayers(LUMINANCE), c \in LayerCases(CHROMINANCE)}

\* Decoder(data) (lines 123-129)
DecoderInit ==
    /\ input = NoBlocks
    /\ enc_data = <<>>
    /\ enc_diff_dc = None
    /\ enc_run_length_ac = None
    /\ encoded \in DecoderInputs
    /\ dec_dc = None
    /\ dec_ac = None
    /\ decoded = NoBlocks
    /\ praised = "none"
    /\ ppc = "decoder"

\* decode() is called once more on a Decoder that has raised: the cached
\* attributes are as the failed call left them
DecoderDecodeAgain ==
    /\ UNCHANGED <<hvars, rvars, zvars, dvars>>
    /\ ppc = "decode_raised"
    /\ \E r \in {Decoder_decode(encoded, dec_dc, dec_ac)} :
           /\ dec_dc' = r.dc
           /\ dec_ac' = r.ac
           /\ decoded' = r.blocks
           /\ praised' = r.raised
           /\ ppc' = IF r.raised = "none" THEN "decoded_again"
                     ELSE "decode_raised_again"
    /\ UNCHANGED <<input, enc_data, enc_diff_dc, enc_run_length_ac, encoded>>

InitDecoder ==
    DecoderInit /\ HuffmanIdle /\ RunLengthIdle /\ ZigZagIdle
    /\ DifferentialIdle

DecoderNext ==
    \/ DecoderDc
    \/ DecoderAc
    \/ DecoderDecode
    \/ DecoderDecodeAgain

SpecDecoder == InitDecoder /\ [][DecoderNext]_vars

----------------------------------------------------------------------------
(* The reference the tables are compared with: ITU-T T.81 Annex K.  Tables *)
(* K.3 to K.6 are the codes that the procedure of Annex C (figures C.1 to  *)
(* C.3) generates from the lists BITS (the number of codes of each length  *)
(* 1..16) and HUFFVAL (the symbols in order of increasing code length) of  *)
(* K.3.3.  A symbol of the AC lists is written <<run, size>> for the byte  *)
(* 16 * run + size.                                                        *)

BITS_DC_LUMINANCE == <<0, 1, 5, 1, 1, 1, 1, 1, 1, 0, 0, 0, 0, 0, 0, 0>>
BITS_DC_CHROMINANCE == <<0, 3, 1, 1, 1, 1, 1, 1, 1, 1, 1, 0, 0, 0, 0, 0>>
HUFFVAL_DC == <<0, 1, 2, 3, 4, 5, 6, 7, 8, 9, 10, 11>>

BITS_AC_LUMINANCE == <<0, 2, 1, 3, 3, 2, 4, 3, 5, 5, 4, 4, 0, 0, 1, 125>>
BITS_AC_CHROMINANCE == <<0, 2, 1, 2, 4, 4, 3, 4, 7, 5, 4, 4, 0, 1, 2, 119>>

HUFFVAL_AC_LUMINANCE ==
    << <<0,1>>, <<0,2>>, <<0,3>>, <<0,0>>, <<0,4>>, <<1,1>>, <<0,5>>, <<1,2>>,
       <<2,1>>, <<3,1>>, <<4,1>>, <<0,6>>, <<1,3>>, <<5,1>>, <<6,1>>, <<0,7>>,
       <<2,2>>, <<7,1>>, <<1,4>>, <<3,2>>, <<8,1>>, <<9,1>>, <<10,1>>, <<0,8>>,
       <<2,3>>, <<4,2>>, <<11,1>>, <<12,1>>, <<1,5>>, <<5,2>>, <<13,1>>, <<15,0>>,
       <<2,4>>, <<3,3>>, <<6,2>>, <<7,2>>, <<8,2>>, <<0,9>>, <<0,10>>, <<1,6>>,
       <<1,7>>, <<1,8>>, <<1,9>>, <<1,10>>, <<2,5>>, <<2,6>>, <<2,7>>, <<2,8>>,
       <<2,9>>, <<2,10>>, <<3,4>>, <<3,5>>, <<3,6>>, <<3,7>>, <<3,8>>, <<3,9>>,
       <<3,10>>, <<4,3>>, <<4,4>>, <<4,5>>, <<4,6>>, <<4,7>>, <<4,8>>, <<4,9>>,
       <<4,10>>, <<5,3>>, <<5,4>>, <<5,5>>, <<5,6>>, <<5,7>>, <<5,8>>, <<5,9>>,
       <<5,10>>, <<6,3>>, <<6,4>>, <<6,5>>, <<6,6>>, <<6,7>>, <<6,8>>, <<6,9>>,
       <<6,10>>, <<7,3>>, <<7,4>>, <<7,5>>, <<7,6>>, <<7,7>>, <<7,8>>, <<7,9>>,
       <<7,10>>, <<8,3>>, <<8,4>>, <<8,5>>, <<8,6>>, <<8,7>>, <<8,8>>, <<8,9>>,
       <<8,10>>, <<9,2>>, <<9,3>>, <<9,4>>, <<9,5>>, <<9,6>>, <<9,7>>, <<9,8>>,
       <<9,9>>, <<9,10>>, <<10,2>>, <<10,3>>, <<10,4>>, <<10,5>>, <<10,6>>, <<10,7>>,
       <<10,8>>, <<10,9>>, <<10,10>>, <<11,2>>, <<11,3>>, <<11,4>>, <<11,5>>, <<11,6>>,
       <<11,7>>, <<11,8>>, <<11,9>>, <<11,10>>, <<12,2>>, <<12,3>>, <<12,4>>, <<12,5>>,
       <<12,6>>, <<12,7>>, <<12,8>>, <<12,9>>, <<12,10>>, <<13,2>>, <<13,3>>, <<13,4>>,
       <<13,5>>, <<13,6>>, <<13,7>>, <<13,8>>, <<13,9>>, <<13,10>>, <<14,1>>, <<14,2>>,
       <<14,3>>, <<14,4>>, <<14,5>>, <<14,6>>, <<14,7>>, <<14,8>>, <<14,9>>, <<14,10>>,
       <<15,1>>, <<15,2>>, <<15,3>>, <<15,4>>, <<15,5>>, <<15,6>>, <<15,7>>, <<15,8>>,
       <<15,9>>, <<15,10>> >>

HUFFVAL_AC_CHROMINANCE ==
    << <<0,0>>, <<0,1>>, <<0,2>>, <<0,3>>, <<1,1>>, <<0,4>>, <<0,5>>, <<2,1>>,
       <<3,1>>, <<0,6>>, <<1,2>>, <<4,1>>, <<5,1>>, <<0,7>>, <<6,1>>, <<7,1>>,
       <<1,3>>, <<2,2>>, <<3,2>>, <<8,1>>, <<0,8>>, <<1,4>>, <<4,2>>, <<9,1>>,
       <<10,1>>, <<11,1>>, <<12,1>>, <<0,9>>, <<2,3>>, <<3,3>>, <<5,2>>, <<15,0>>,
       <<1,5>>, <<6,2>>, <<7,2>>, <<13,1>>, <<0,10>>, <<1,6>>, <<2,4>>, <<3,4>>,
       <<14,1>>, <<2,5>>, <<15,1>>, <<1,7>>, <<1,8>>, <<1,9>>, <<1,10>>, <<2,6>>,
       <<2,7>>, <<2,8>>, <<2,9>>, <<2,10>>, <<3,5>>, <<3,6>>, <<3,7>>, <<3,8>>,
       <<3,9>>, <<3,10>>, <<4,3>>, <<4,4>>, <<4,5>>, <<4,6>>, <<4,7>>, <<4,8>>,
       <<4,9>>, <<4,10>>, <<5,3>>, <<5,4>>, <<5,5>>, <<5,6>>, <<5,7>>, <<5,8>>,
       <<5,9>>, <<5,10>>, <<6,3>>, <<6,4>>, <<6,5>>, <<6,6>>, <<6,7>>, <<6,8>>,
       <<6,9>>, <<6,10>>, <<7,3>>, <<7,4>>, <<7,5>>, <<7,6>>, <<7,7>>, <<7,8>>,
       <<7,9>>, <<7,10>>, <<8,2>>, <<8,3>>, <<8,4>>, <<8,5>>, <<8,6>>, <<8,7>>,
       <<8,8>>, <<8,9>>, <<8,10>>, <<9,2>>, <<9,3>>, <<9,4>>, <<9,5>>, <<9,6>>,
       <<9,7>>, <<9,8>>, <<9,9>>, <<9,10>>, <<10,2>>, <<10,3>>, <<10,4>>, <<10,5>>,
       <<10,6>>, <<10,7>>, <<10,8>>, <<10,9>>, <<10,10>>, <<11,2>>, <<11,3>>, <<11,4>>,
       <<11,5>>, <<11,6>>, <<11,7>>, <<11,8>>, <<11,9>>, <<11,10>>, <<12,2>>, <<12,3>>,
       <<12,4>>, <<12,5>>, <<12,6>>, <<12,7>>, <<12,8>>, <<12,9>>, <<12,10>>, <<13,2>>,
       <<13,3>>, <<13,4>>, <<13,5>>, <<13,6>>, <<13,7>>, <<13,8>>, <<13,9>>, <<13,10>>,
       <<14,2>>, <<14,3>>, <<14,4>>, <<14,5>>, <<14,6>>, <<14,7>>, <<14,8>>, <<14,9>>,
       <<14,10>>, <<15,2>>, <<15,3>>, <<15,4>>, <<15,5>>, <<15,6>>, <<15,7>>, <<15,8>>,
       <<15,9>>, <<15,10>> >>

\* n written as exactly width bits, most significant bit first
BitsOf(n, width) == [i \in 1..width |-> (n \div 2^(width - i)) % 2]

RECURSIVE AnnexCCodes(_, _, _, _, _)
\* Annex C: the codes of length len are consecutive numbers starting at code,
\* and the first code of the next length is (last code + 1) * 2.  The result
\* is the sequence of <<symbol, codeword>> pairs from length len on.
AnnexCCodes(bits, huffval, len, code, done) ==
    IF len > Len(bits) THEN <<>>
    ELSE [j \in 1..bits[len] |->
             <<huffval[done + j], BitsOf(code + j - 1, len)>>]
         \o AnnexCCodes(bits, huffval, len + 1, (code + bits[len]) * 2,
                        done + bits[len])

AnnexCTable(bits, huffval) ==
    LET pairs == AnnexCCodes(bits, huffval, 1, 0, 0)
    IN  [sym \in {pairs[i][1] : i \in DOMAIN pairs} |->
            pairs[CHOOSE i \in DOMAIN pairs : pairs[i][1] = sym][2]]

AnnexK ==
    [DC |-> [luminance |-> AnnexCTable(BITS_DC_LUMINANCE, HUFFVAL_DC),
             chrominance |-> AnnexCTable(BITS_DC_CHROMINANCE, HUFFVAL_DC)],
     AC |-> [luminance |->
                AnnexCTable(BITS_AC_LUMINANCE, HUFFVAL_AC_LUMINANCE),
             chrominance |->
                AnnexCTable(BITS_AC_CHROMINANCE, HUFFVAL_AC_CHROMINANCE)]]

\* the codewords section 6 of the specification writes out
Section6_DC_LUMINANCE ==
    << <<0,0>>, <<0,1,0>>, <<0,1,1>>, <<1,0,0>>, <<1,0,1>>, <<1,1,0>>,
       <<1,1,1,0>>, <<1,1,1,1,0>>, <<1,1,1,1,1,0>>, <<1,1,1,1,1,1,0>>,
       <<1,1,1,1,1,1,1,0>>, <<1,1,1,1,1,1,1,1,0>> >>
Section6_DC_CHROMINANCE ==
    << <<0,0>>, <<0,1>>, <<1,0>>, <<1,1,0>>, <<1,1,1,0>>, <<1,1,1,1,0>>,
       <<1,1,1,1,1,0>>, <<1,1,1,1,1,1,0>>, <<1,1,1,1,1,1,1,0>>,
       <<1,1,1,1,1,1,1,1,0>>, <<1,1,1,1,1,1,1,1,1,0>>,
       <<1,1,1,1,1,1,1,1,1,1,0>> >>
Section6_EOB_ZRL ==
    [luminance |-> [EOB |-> <<1,0,1,0>>, ZRL |-> <<1,1,1,1,1,1,1,1,0,0,1>>],
     chrominance |-> [EOB |-> <<0,0>>, ZRL |-> <<1,1,1,1,1,1,1,0,1,0>>]]

\* what section 6 and Annex K give for one key of one table
WireCodeword(kind, layer, key) ==
    IF kind = DC
    THEN (IF layer = LUMINANCE THEN Section6_DC_LUMINANCE
          ELSE Section6_DC_CHROMINANCE)[key + 1]
    ELSE IF key = EOB THEN Section6_EOB_ZRL[layer].EOB
    ELSE IF key = ZRL THEN Section6_EOB_ZRL[layer].ZRL
    ELSE AnnexK[AC][layer][key]

----------------------------------------------------------------------------
(* Properties of the bit-level codec, checked under SpecHuffman.           *)

\* floor(log2 |v|) + 1 for v # 0, and 0 for v = 0: the least s with |v| < 2^s
SizeOf(v) == CHOOSE s \in 0..16 : Abs(v) < 2^s /\ (s > 0 => Abs(v) >= 2^(s - 1))

\* the zero-based position of v in
\* [-(2^s - 1) .. -2^(s-1), 2^(s-1) .. 2^s - 1], s = SizeOf(v)
PositionOf(v) == IF v < 0 THEN v + (2^SizeOf(v) - 1) ELSE v

\* the table key of a valid symbol
KeyOf(kind, v) ==
    IF kind = DC THEN SizeOf(v)
    ELSE IF v = EOB \/ v = ZRL THEN v
    ELSE <<v[1], SizeOf(v[2])>>

\* the value whose category and position are written after the codeword
AmplitudeOf(kind, v) == IF kind = DC THEN v ELSE v[2]

ValidSymbol(kind, v) ==
    IF kind = DC THEN Abs(v) <= 2047
    ELSE v = EOB \/ v = ZRL
         \/ (v[1] \in 0..15 /\ 1 <= Abs(v[2]) /\ Abs(v[2]) <= 1023)

\* the bits the specification prescribes for one valid symbol
PrescribedBits(kind, layer, v) ==
    LET amp == AmplitudeOf(kind, v)
    IN  HUFFMAN_CATEGORY_CODEWORD[kind][layer][KeyOf(kind, v)]
        \o BitsOf(PositionOf(amp), SizeOf(amp))

\* C2: decoding the joined encodings of a sequence of valid symbols never
\* raises, yields the symbols in order while it runs and, when the generator
\* is exhausted, has yielded exactly that sequence.
C2_HuffmanRoundTrip ==
    /\ hpc \in {"decode", "decode_raised", "done"} =>
          /\ raised = "none"
          /\ Len(yielded) <= Len(values)
          /\ yielded = SubSeq(values, 1, Len(yielded))
    /\ hpc = "done" => yielded = values

C2_Witness ==
    /\ hpc = "done"
    /\ dc_ac = AC
    /\ layer_type = CHROMINANCE
    /\ yielded = <<ZRL, <<15, -1023>>, EOB>>

\* a table is injective and no codeword is a proper prefix of another
PrefixFree(table) ==
    \A k1, k2 \in DOMAIN table :
        k1 # k2 => /\ table[k1] # table[k2]
                   /\ ~IsPrefix(table[k1], table[k2])

TablesPrefixFree ==
    \A kind \in {DC, AC}, layer \in {LUMINANCE, CHROMINANCE} :
        PrefixFree(HUFFMAN_CATEGORY_CODEWORD[kind][layer])

RECURSIVE GrowingMatch(_, _, _, _, _, _)
\* the search in the other direction: the slice grows from n bits up to the
\* window; 0 when no slice is a codeword
GrowingMatch(bits, idx, n, window, kind, layer) ==
    IF n > window THEN 0
    ELSE IF Slice(bits, idx, idx + n)
              \in DOMAIN HUFFMAN_CATEGORY_CODEWORD_INV[kind][layer]
         THEN n
         ELSE GrowingMatch(bits, idx, n + 1, window, kind, layer)

Window(bits, idx) ==
    IF Len(bits) - idx > MaxCodewordLength
    THEN MaxCodewordLength ELSE Len(bits) - idx

\* C4: every table is injective and prefix-free; so wherever the cursor of
\* decode_huffman stands, at most one codeword is a prefix of the remaining
\* bits and the shrinking window finds what a growing one would find.
C4_PrefixFreeUniqueMatch ==
    /\ TablesPrefixFree
    /\ (hpc = "decode" /\ current_idx < Len(bit_seq)) =>
          LET table == HUFFMAN_CATEGORY_CODEWORD[dc_ac][layer_type]
              rest == Slice(bit_seq, current_idx, Len(bit_seq))
              w == Window(bit_seq, current_idx)
          IN  /\ Cardinality({k \in DOMAIN table : IsPrefix(table[k], rest)})
                    <= 1
              /\ ShrinkingMatch(bit_seq, current_idx, w, dc_ac, layer_type)
                 = GrowingMatch(bit_seq, current_idx, 1, w, dc_ac, layer_type)

C4_Witness ==
    /\ hpc = "decode"
    /\ dc_ac = AC
    /\ layer_type = LUMINANCE
    /\ values = <<ZRL, <<0, 2>>, EOB>>
    /\ current_idx = Len(HUFFMAN_CATEGORY_CODEWORD[AC][LUMINANCE][ZRL])

\* C5: every codeword of the four tables is the one of the wire format
\* (section 6 for DC, EOB and ZRL; Annex K tables K.5 and K.6 for the other
\* AC keys): the codeword a symbol is encoded with is the reference one.
C5_TablesMatchWireFormat ==
    (hpc = "encode" /\ Len(values) = 1) =>
        LET key == KeyOf(dc_ac, values[1])
        IN  HUFFMAN_CATEGORY_CODEWORD[dc_ac][layer_type][key]
            = WireCodeword(dc_ac, layer_type, key)

\* C9: the joined output of encode_huffman is, symbol by symbol, the table
\* codeword followed by the position of the amplitude in its category as
\* exactly size bits, most significant first; 3 then -5 as luminance DC
\* differences give 011 11 100 010.
C9_EncodedBits ==
    /\ (hpc = "encode" /\ values # <<>>) =>
          bit_seq = Flatten([i \in 1..Len(values) |->
                               PrescribedBits(dc_ac, layer_type, values[i])])
    /\ (hpc = "encode" /\ dc_ac = DC /\ layer_type = LUMINANCE
           /\ values = <<3, -5>>) =>
          bit_seq = <<0,1,1, 1,1, 1,0,0, 0,1,0>>

C9_Witness ==
    /\ hpc = "encode"
    /\ dc_ac = DC
    /\ layer_type = LUMINANCE
    /\ values = <<3, -5>>
    /\ bit_seq = <<0,1,1, 1,1, 1,0,0, 0,1,0>>

\* C10: encode_huffman raises ValueError exactly for the symbols out of
\* range; for every other symbol it returns, its category being at most 11
\* (DC) or 10 (AC), a key the table has.
C10_ValueErrorOutOfRange ==
    values # <<>> =>
        LET v == Last(values)
        IN  IF ValidSymbol(dc_ac, v)
            THEN /\ hpc # "encode_raised"
                 /\ index_2d(HUFFMAN_CATEGORIES, AmplitudeOf(dc_ac, v))[1]
                       <= (IF dc_ac = DC THEN 11 ELSE 10)
            ELSE hpc = "encode_raised" /\ raised = "ValueError"

C10_Witness ==
    /\ hpc = "encode_raised"
    /\ raised = "ValueError"
    /\ dc_ac = AC
    /\ values = << <<3, 0>> >>

----------------------------------------------------------------------------
(* Properties of the run-length coder, checked under SpecRunLength.        *)

NonzeroAt(a) == {i \in 1..Len(a) : a[i] # 0}

\* the number of zeros between position i and the nonzero value before it
\* (or the start of the vector)
ZerosBefore(a, i) ==
    LET before == {j \in NonzeroAt(a) : j < i}
    IN  IF before = {} THEN i - 1
        ELSE i - 1 - (CHOOSE j \in before : \A q \in before : q <= j)

\* what the specification prescribes for a vector: for every nonzero value,
\* in order, floor(z / 16) ZRL and then (z mod 16, value); then one EOB
PrescribedRunLength(a) ==
    LET at == Ascending(NonzeroAt(a))
    IN  Flatten([k \in 1..Len(at) |->
                   Repeat(ZRL, ZerosBefore(a, at[k]) \div 16)
                   \o << <<ZerosBefore(a, at[k]) % 16, a[at[k]]>> >>])
        \o <<EOB>>

SixteenZerosThenTwo == [i \in 1..NumAC |-> IF i = 17 THEN 2 ELSE 0]

\* a without the zeros at its end
WithoutTrailingZeros(a) ==
    IF NonzeroAt(a) = {} THEN <<>>
    ELSE SubSeq(a, 1, CHOOSE j \in NonzeroAt(a) : \A q \in NonzeroAt(a) : q <= j)

\* C3 as the specification states it: decoding the encoding of a vector of
\* 63 AC values gives the vector back, all 63 values of it.
C3_RunLengthRoundTrip ==
    rpc = "decoded" => (rl_decoded = rl_seq /\ Len(rl_decoded) = NumAC)

\* C3 as the code has it: decoding the encoding gives the vector without the
\* zeros at its end (nothing for the all-zero vector), so it gives the vector
\* itself, 63 values, exactly when the last AC value is nonzero; filling it
\* up to 63 values with zeros, as inverse_iter_zig_zag does, gives the vector.
C3_RoundTripUpToTrailingZeros ==
    rpc = "decoded" =>
        /\ rl_decoded = WithoutTrailingZeros(rl_seq)
        /\ (rl_decoded = rl_seq) <=> (rl_seq[NumAC] # 0)
        /\ rl_decoded \o Repeat(0, NumAC - Len(rl_decoded)) = rl_seq

C3_Witness ==
    /\ rpc = "decoded"
    /\ rl_seq = SixteenZerosThenTwo
    /\ rl_decoded = [i \in 1..17 |-> IF i = 17 THEN 2 ELSE 0]

\* C8: encode_run_length gives, for every nonzero value after z zeros,
\* floor(z / 16) ZRL and (z mod 16, value), nothing for the zeros at the end,
\* and then one EOB; every run is in 0..15; the all-zero vector gives [EOB]
\* and 16 zeros before a 2 give [ZRL, (0, 2), EOB].
C8_RunLengthSymbols ==
    rpc \in {"encoded", "decoded"} =>
        /\ rl_encoded = PrescribedRunLength(rl_seq)
        /\ \A i \in 1..Len(rl_encoded) : rl_encoded[i][1] \in 0..15
        /\ NonzeroAt(rl_seq) = {} => rl_encoded = <<EOB>>
        /\ rl_seq = SixteenZerosThenTwo => rl_encoded = <<ZRL, <<0, 2>>, EOB>>

C8_Witness ==
    /\ rpc = "encoded"
    /\ rl_seq = SixteenZerosThenTwo
    /\ rl_encoded = <<ZRL, <<0, 2>>, EOB>>

----------------------------------------------------------------------------
(* Properties of the zig-zag traversal, checked under SpecZigZag.          *)

\* JPEG zig-zag order on the cells <<row, column>>: by diagonals of growing
\* row + column; an even diagonal runs up and to the right (rows falling),
\* an odd one down and to the left (rows growing)
Before(a, b) ==
    LET da == a[1] + a[2]
        db == b[1] + b[2]
    IN  \/ da < db
        \/ da = db /\ (IF da % 2 = 0 THEN a[1] > b[1] ELSE a[1] < b[1])

\* C6: iter_zig_zag visits the cells of an N x N matrix in JPEG zig-zag
\* order, each once and all N * N of them, yielding what it finds there
\* (1, 2, 4, 7, 5, 3, 6, 8, 9 for the 3 x 3 matrix counting from 1), and
\* inverse_iter_zig_zag with size N makes the matrix again of what was
\* yielded.
C6_ZigZagOrderAndInverse ==
    zpc # "idle" =>
        LET n == Len(zz_data)
        IN  /\ zpc # "raised"
            /\ Len(zz_visited) = Len(zz_seq)
            /\ zz_seq # <<>> =>
                  LET cell == Last(zz_visited)
                  IN  /\ cell \in Cells(n)
                      /\ Cardinality({c \in Cells(n) : Before(c, cell)})
                            = Len(zz_visited) - 1
                      /\ Last(zz_seq) = zz_data[cell[1] + 1][cell[2] + 1]
            /\ zpc \in {"inverse", "done"} =>
                  /\ Len(zz_seq) = n * n
                  /\ zz_seq = iter_zig_zag(zz_data)
                  /\ zz_data = CountingMatrix(3) =>
                        zz_seq = <<1, 2, 4, 7, 5, 3, 6, 8, 9>>
            /\ zpc = "done" =>
                  /\ DOMAIN zz_ret = Cells(n)
                  /\ AsMatrix(zz_ret, n) = zz_data
                  /\ inverse_iter_zig_zag(zz_seq, n, 0)
                        = [raised |-> "none", ret |-> zz_ret]

C6_Witness ==
    /\ zpc = "done"
    /\ zz_data = CountingMatrix(3)
    /\ zz_seq = <<1, 2, 4, 7, 5, 3, 6, 8, 9>>
    /\ AsMatrix(zz_ret, 3) = zz_data

----------------------------------------------------------------------------
(* Properties of the Encoder and the Decoder, checked under Spec.          *)

\* the DC values of a sequence of blocks and the values DPCM makes of them
DCOf(blocks) == [b \in 1..Len(blocks) |-> blocks[b][1][1]]
DCDifferences(blocks) ==
    {DCOf(blocks)[b] - (IF b = 1 THEN 0 ELSE DCOf(blocks)[b - 1]) :
        b \in 1..Len(blocks)}
ACOf(blocks) ==
    {blocks[p[1]][p[2]][p[3]] :
        p \in {q \in (1..Len(blocks)) \X (1..BlockSize) \X (1..BlockSize) :
                  <<q[2], q[3]>> # <<1, 1>>}}

\* the precondition of the round trip: Cb and Cr of one length, every DC
\* difference of a layer within [-2047, 2047], every AC value within
\* [-1023, 1023]
InRange(in) ==
    /\ Len(in.cb) = Len(in.cr)
    /\ \A d \in DCDifferences(in.y) \cup DCDifferences(in.cb \o in.cr) :
          Abs(d) <= 2047
    /\ \A v \in ACOf(in.y) \cup ACOf(in.cb \o in.cr) : Abs(v) <= 1023

\* C1: for an input in range neither encode() nor any call on the Decoder
\* raises, and decode() returns y, cb and cr equal to the input.
C1_RoundTrip ==
    (ppc # "idle" /\ InRange(input)) =>
        /\ ppc \notin {"encode_raised", "decode_raised"}
        /\ ppc = "decoded" => decoded = input

C1_Witness ==
    /\ ppc = "decoded"
    /\ input.y = <<DenseBlock, LastBlock>>
    /\ input.cb = <<DCOnlyBlock(10)>>
    /\ input.cr = <<DCOnlyBlock(7)>>
    /\ decoded = input

\* C7: the AC symbol list the Encoder builds for a layer of n blocks holds
\* exactly n EOB; cut after each EOB it falls into the run-length encodings
\* of the n blocks in block order, with nothing left over, and each of them
\* has its only EOB at its end.
C7_OneEOBPerBlock ==
    (ppc # "idle" /\ ~enc_run_length_ac.none) =>
        \A layer \in {LUMINANCE, CHROMINANCE} :
            LET syms == enc_run_length_ac.map[layer]
                blocks == enc_data[layer]
                groups == isplit(syms, EOB)
            IN  /\ Cardinality({i \in 1..Len(syms) : syms[i] = EOB})
                      = Len(blocks)
                /\ Len(groups) = Len(blocks)
                /\ Flatten(groups) = syms
                /\ \A b \in 1..Len(blocks) :
                      /\ groups[b]
                            = encode_run_length(Tail(iter_zig_zag(blocks[b])))
                      /\ {i \in 1..Len(groups[b]) : groups[b][i] = EOB}
                            = {Len(groups[b])}

C7_Witness ==
    /\ ppc = "encoder"
    /\ ~enc_run_length_ac.none
    /\ input.y = <<LastBlock, ZRLBlock>>
    /\ Len(isplit(enc_run_length_ac.map[LUMINANCE], EOB)) = 2

----------------------------------------------------------------------------
(* Properties of decode_huffman on any bit string, checked under           *)
(* SpecDecode.                                                             *)

\* the keys of a table whose codeword begins the bits from the cursor on
KeysAt(bits, idx, kind, layer) ==
    {k \in DOMAIN HUFFMAN_CATEGORY_CODEWORD[kind][layer] :
        IsPrefix(HUFFMAN_CATEGORY_CODEWORD[kind][layer][k],
                 SubSeq(bits, idx + 1, Len(bits)))}

\* the category (size) a key stands for
KeySize(kind, k) == IF kind = DC THEN k ELSE k[2]

\* the bits left behind the codeword of key k matched at the cursor
BitsAfter(bits, idx, kind, layer, k) ==
    Len(bits) - idx - Len(HUFFMAN_CATEGORY_CODEWORD[kind][layer][k])

\* what the specification prescribes at a cursor before the end: NoPrefix
\* when no codeword begins the remaining bits, TruncatedBits when the matched
\* codeword of size s > 0 has fewer than s bits behind it, no error otherwise
PrescribedError(bits, idx, kind, layer) ==
    IF KeysAt(bits, idx, kind, layer) = {} THEN "KeyError"
    ELSE IF \E k \in KeysAt(bits, idx, kind, layer) :
                /\ KeySize(kind, k) > 0
                /\ BitsAfter(bits, idx, kind, layer, k) < KeySize(kind, k)
    THEN "IndexError"
    ELSE "none"

\* what a step of the generator at its cursor must do, given the error e
\* prescribed there
StepAsPrescribed(e) ==
    IF current_idx >= Len(bit_seq)
    THEN hpc' = "done" /\ raised' = "none" /\ yielded' = yielded
    ELSE IF e = "none"
    THEN /\ hpc' = "decode"
         /\ raised' = "none"
         /\ Len(yielded') = Len(yielded) + 1
    ELSE hpc' = "decode_raised" /\ raised' = e /\ yielded' = yielded

\* C11: a pass of decode_huffman raises IndexError exactly when the codeword
\* matched at the cursor has a size s > 0 and fewer than s bits behind it,
\* KeyError exactly when the cursor is before the end and no codeword of the
\* table begins the remaining bits, and otherwise yields a value without
\* raising.
C11_DecodeErrors ==
    [][hpc = "decode" =>
          StepAsPrescribed(PrescribedError(bit_seq, current_idx, dc_ac,
                                           layer_type))]_vars

C11_Witness ==
    /\ hpc = "decode_raised"
    /\ raised = "IndexError"
    /\ dc_ac = DC
    /\ layer_type = LUMINANCE
    /\ bit_seq = <<0, 0, 0, 1, 1, 1>>
    /\ yielded = <<0>>
    /\ current_idx = 2

----------------------------------------------------------------------------
(* Properties of the Decoder on any dict, checked under SpecDecoder.       *)

\* what decode_huffman makes of the four streams of a dict
DCValues(data, layer) == decode_huffman(data[DC][layer], DC, layer)
ACSymbols(data, layer) == decode_huffman(data[AC][layer], AC, layer)

\* the four streams decode without an exception
StreamsDecode(data) ==
    \A layer \in {LUMINANCE, CHROMINANCE} :
        /\ DCValues(data, layer).raised = "none"
        /\ ACSymbols(data, layer).raised = "none"

DCCount(data, layer) == Len(DCValues(data, layer).values)

\* the positions of EOB in the AC symbols of a layer; there are as many
\* EOB-terminated groups
EOBAt(data, layer) ==
    {i \in 1..Len(ACSymbols(data, layer).values) :
        ACSymbols(data, layer).values[i] = EOB}

GroupCount(data, layer) == Cardinality(EOBAt(data, layer))

\* the counts the decoder is to check
CountsDisagree(data) ==
    \/ \E layer \in {LUMINANCE, CHROMINANCE} :
          DCCount(data, layer) # GroupCount(data, layer)
    \/ DCCount(data, CHROMINANCE) % 2 = 1
    \/ GroupCount(data, CHROMINANCE) % 2 = 1

\* a call of decode() has ended
DecodeEnded ==
    ppc \in {"decoded", "decode_raised", "decoded_again",
             "decode_raised_again"}

\* the coefficients a group of AC symbols stands for: run zeros and a value
\* for each symbol, the value of EOB not counted
GroupLength(symbols, lo, hi) ==
    Sum([i \in 1..Len(symbols) |-> symbols[i][1] + 1], lo, hi) - 1

\* the position of the EOB before position i, 0 when there is none
EOBBefore(data, layer, i) ==
    IF \E j \in EOBAt(data, layer) : j < i
    THEN CHOOSE j \in EOBAt(data, layer) :
             /\ j < i
             /\ \A q \in EOBAt(data, layer) : q < i => q <= j
    ELSE 0

\* some block of the layer has more than 63 AC coefficients
Overlong(data, layer) ==
    \E i \in EOBAt(data, layer) :
        GroupLength(ACSymbols(data, layer).values,
                    EOBBefore(data, layer, i) + 1, i) > NumAC

\* only the chrominance counts disagree, both being even: the loop of
\* decode() shapes the luminance blocks before it compares them
OnlyChrominanceDisagrees(data) ==
    /\ DCCount(data, LUMINANCE) = GroupCount(data, LUMINANCE)
    /\ DCCount(data, CHROMINANCE) % 2 = 0
    /\ GroupCount(data, CHROMINANCE) % 2 = 0
    /\ DCCount(data, CHROMINANCE) # GroupCount(data, CHROMINANCE)

\* C12 as the specification states it: whenever the streams decode and the
\* DC count of a layer differs from its number of EOB-terminated groups, or
\* a chrominance count is odd, decode() raises ValueError and returns no
\* blocks.
C12_ShapeMismatch ==
    (DecodeEnded /\ StreamsDecode(encoded) /\ CountsDisagree(encoded)) =>
        /\ ppc \in {"decode_raised", "decode_raised_again"}
        /\ praised = "ValueError"
        /\ decoded = NoBlocks

\* C12 as the code has it: decode() then always raises and returns no
\* blocks; it raises ValueError, except that when only the chrominance
\* counts disagree (both even) and a luminance block has more than 63 AC
\* coefficients, the IndexError of shaping that block comes first.
C12_ShapeMismatchAfterLuminance ==
    (DecodeEnded /\ StreamsDecode(encoded) /\ CountsDisagree(encoded)) =>
        /\ ppc \in {"decode_raised", "decode_raised_again"}
        /\ decoded = NoBlocks
        /\ praised = IF /\ OnlyChrominanceDisagrees(encoded)
                        /\ Overlong(encoded, LUMINANCE)
                     THEN "IndexError" ELSE "ValueError"

C12_Witness ==
    /\ ppc = "decode_raised"
    /\ praised = "IndexError"
    /\ encoded = Data(Layer(LUMINANCE, 1, LongGroup),
                      Layer(CHROMINANCE, 2, <<>>))
    /\ DCCount(encoded, CHROMINANCE) = 2
    /\ GroupCount(encoded, CHROMINANCE) = 0
    /\ decoded = NoBlocks


\* a cached per-layer mapping is unset or holds both layers
Whole(cache) == cache.none \/ DOMAIN cache.map = {LUMINANCE, CHROMINANCE}

\* a call on the Encoder or the Decoder has raised
CallRaised == ppc \in {"encode_raised", "decode_raised", "decode_raised_again"}

\* C13: a call that raises returns nothing and leaves every cached
\* per-layer mapping of the object unset or holding both layers, and
\* decode() called again on the Decoder raises the same error.
C13_NoPartialResult ==
    /\ [](CallRaised =>
            /\ Whole(enc_diff_dc) /\ Whole(enc_run_length_ac)
            /\ Whole(dec_dc) /\ Whole(dec_ac)
            /\ ppc = "encode_raised" => encoded = NoResult
            /\ ppc # "encode_raised" => decoded = NoBlocks)
    /\ [][ppc = "decode_raised" /\ ppc' # ppc =>
             ppc' = "decode_raised_again" /\ praised' = praised]_vars


----------------------------------------------------------------------------
(* Properties of the differential coder, checked under SpecDifferential.   *)

\* C14: encode_differential(s) is [s0, s1 - s0, s2 - s1, ...], as long as
\* s, and decode_differential, the running sum, gives s back.
C14_DifferentialRoundTrip ==
    /\ dpc \in {"encoded", "decoded"} =>
          /\ Len(diff_encoded) = Len(diff_seq)
          /\ \A i \in 1..Len(diff_seq) :
                 diff_encoded[i] =
                     IF i = 1 THEN diff_seq[1]
                     ELSE diff_seq[i] - diff_seq[i - 1]
    /\ dpc = "decoded" =>
          /\ Len(diff_decoded) = Len(diff_encoded)
          /\ \A i \in 1..Len(diff_encoded) :
                 diff_decoded[i] =
                     diff_encoded[i]
                     + (IF i = 1 THEN 0 ELSE diff_decoded[i - 1])
          /\ diff_decoded = diff_seq

C14_Witness ==
    /\ dpc = "decoded"
    /\ diff_seq = <<2, -2, 1, 1>>
    /\ diff_encoded = <<2, -4, 3, 0>>
    /\ diff_decoded = <<2, -2, 1, 1>>


----------------------------------------------------------------------------
(* The loop of decode_huffman on any bit string, checked under SpecDecode. *)

\* the bits of the values yielded so far
BitsOfYielded ==
    Flatten([i \in 1..Len(yielded) |->
                PrescribedBits(dc_ac, layer_type, yielded[i])])

\* the cursor is the index of the first undecoded bit: the bits before it
\* are those of the values yielded
CursorAtFirstUndecoded ==
    /\ current_idx <= Len(bit_seq)
    /\ SubSeq(bit_seq, 1, current_idx) = BitsOfYielded

\* the cursor advances by the length of the codeword matched at it, which is
\* at least 2, plus the size of the key, and not past the end
AdvancesByMatch ==
    \E k \in KeysAt(bit_seq, current_idx, dc_ac, layer_type) :
        /\ Len(HUFFMAN_CATEGORY_CODEWORD[dc_ac][layer_type][k]) >= 2
        /\ current_idx' =
               current_idx
               + Len(HUFFMAN_CATEGORY_CODEWORD[dc_ac][layer_type][k])
               + KeySize(dc_ac, k)
        /\ current_idx' <= Len(bit_seq)

\* one step of the loop: it ends without error exactly at the end of the
\* string, and before the end an iteration raises or advances
LoopStep ==
    IF current_idx = Len(bit_seq)
    THEN hpc' = "done" /\ raised' = "none" /\ current_idx' = current_idx
    ELSE \/ hpc' = "decode_raised" /\ raised' # "none"
            /\ current_idx' = current_idx
         \/ hpc' = "decode" /\ raised' = "none" /\ AdvancesByMatch

\* C15: on every bit string the loop of decode_huffman terminates; at the
\* start of each iteration the cursor is the index of the first undecoded bit
\* and at most the length; an iteration raises or advances the cursor by the
\* matched codeword's length (at least 2) plus the size, never past the end;
\* the loop ends without error exactly when the cursor is the length.
C15_DecodeLoopTerminates ==
    /\ [](hpc \in {"decode", "done"} => CursorAtFirstUndecoded)
    /\ [](hpc = "done" => current_idx = Len(bit_seq) /\ raised = "none")
    /\ [][hpc = "decode" => LoopStep]_vars
    /\ <>(hpc \in {"done", "decode_raised"})

C15_Witness ==
    /\ hpc = "done"
    /\ dc_ac = AC
    /\ layer_type = LUMINANCE
    /\ Len(yielded) = 2
    /\ current_idx = Len(bit_seq)
    /\ Len(bit_seq) > MaxCodewordLength


----------------------------------------------------------------------------
(* AC symbols behind the last EOB of a stream, checked under SpecDecoder.  *)

\* the position of the last EOB of a layer's AC symbols, 0 without one
LastEOB(data, layer) ==
    EOBBefore(data, layer, Len(ACSymbols(data, layer).values) + 1)

\* AC symbols follow the last EOB of the layer
HasTrailing(data, layer) ==
    LastEOB(data, layer) < Len(ACSymbols(data, layer).values)

\* the dict with the symbols behind the last EOB of each AC stream absent
WithoutTrailing(data) ==
    [data EXCEPT !.AC =
        [layer \in {LUMINANCE, CHROMINANCE} |->
            Flatten([i \in 1..LastEOB(data, layer) |->
                        PrescribedBits(AC, layer,
                                       ACSymbols(data, layer).values[i])])]]

\* what a new Decoder on the dict without them does on decode()
DecodedWithoutTrailing == Decoder_decode(WithoutTrailing(encoded), None, None)

\* C16 as stated: when the four streams decode, the EOB-terminated groups
\* of each layer are as many as its DC values and the chrominance counts
\* are even, decode() succeeds and returns the blocks it would return
\* without the symbols behind the last EOB.
C16_TrailingSymbolsDiscarded ==
    (DecodeEnded /\ StreamsDecode(encoded) /\ ~CountsDisagree(encoded)) =>
        /\ ppc = "decoded"
        /\ praised = "none"
        /\ decoded = DecodedWithoutTrailing.blocks

\* C16 as the code has it: decode() then does what it would do without the
\* symbols behind the last EOB, and that is to succeed unless a block has
\* more than 63 AC coefficients (inverse_iter_zig_zag raises IndexError on
\* its 65th value).
C16_TrailingSymbolsIgnored ==
    (DecodeEnded /\ StreamsDecode(encoded) /\ ~CountsDisagree(encoded)) =>
        /\ praised = DecodedWithoutTrailing.raised
        /\ decoded = DecodedWithoutTrailing.blocks
        /\ IF Overlong(encoded, LUMINANCE) \/ Overlong(encoded, CHROMINANCE)
           THEN ppc = "decode_raised" \/ ppc = "decode_raised_again"
           ELSE ppc = "decoded" /\ praised = "none"

C16_Witness ==
    /\ ppc = "decoded"
    /\ HasTrailing(encoded, LUMINANCE)
    /\ ACSymbols(encoded, LUMINANCE).values
           = ShortGroup \o ShortGroup \o << <<3, -1>>, ZRL >>
    /\ Len(decoded.y) = 2
    /\ decoded = DecodedWithoutTrailing.blocks

============================================================================
